---- MODULE Spec2Model ----
(***************************************************************************)
(* State-aggregation layer of the Proxmox dashboard backend                *)
(* (src-tauri/src/main.rs): the TTL cache, target addressing, the remote   *)
(* commands each handler spawns, and the overview aggregators.             *)
(*                                                                         *)
(* Conventions                                                             *)
(*  - a Rust String is a TLA+ string; format! is concatenation;            *)
(*  - the str methods (contains, lines, split, trim, parse, ...) are       *)
(*    operators on strings, computed character by character;               *)
(*  - one argument of a spawned process (one element of .args([...])) is   *)
(*    one string, whatever blanks it holds;                                *)
(*  - Option is <<"None">> or <<"Some", v>>, Result a record tagged Ok or  *)
(*    Err;                                                                 *)
(*  - time is counted in ticks, TicksPerSecond ticks to the second, so     *)
(*    that the truncation of chrono's num_seconds() is visible.            *)
(***************************************************************************)
EXTENDS Integers, Sequences, FiniteSets, TLC

VARIABLES
    now,        \* Utc::now(), in ticks
    cache,      \* DATA_CACHE: key -> <<data, timestamp>>, domain = keys present
    stores,     \* history: key -> the last <<data, time>> handed to store_in_cache
    nstores,    \* history: the number of stores so far
    lk,         \* the cache lookup in progress (validity check, then read)
    rw,         \* the RwLock of DATA_CACHE: who holds it to read, to write
    op,         \* the command invoked last: its name and arguments
    calls,      \* the processes it spawned, in order, with what came back
    result,     \* what it returned
    req,        \* the overview requests: the frame (position, locals) of each
    world,      \* the remote side: what it answers to each command
    session     \* the overview endpoint the frontend polls

----------------------------------------------------------------------------
(* Bounds *)

TicksPerSecond == 2
MaxStores == 2

----------------------------------------------------------------------------
(* Cache durations, in seconds (lazy_static block and the literal of       *)
(* get_performance_metrics)                                                *)

CACHE_DURATION == 300
CONTAINER_CACHE_DURATION == 60
HOST_CACHE_DURATION == 180
MAINTENANCE_CACHE_DURATION == 120
PERFORMANCE_CACHE_SECONDS == 30

None == <<"None">>
Some(v) == <<"Some", v>>

----------------------------------------------------------------------------
(* TTL cache *)

\* diff.num_seconds(): whole seconds of a non-negative duration
num_seconds(diff) == diff \div TicksPerSecond

is_cache_valid_with_duration_inclusive(key, duration) ==
    IF key \in DOMAIN cache
    THEN num_seconds(now - cache[key][2]) <= duration
    ELSE FALSE

is_cache_valid_with_duration(key, duration) ==
    IF key \in DOMAIN cache
    THEN num_seconds(now - cache[key][2]) < duration
    ELSE FALSE

is_cache_valid(key) == is_cache_valid_with_duration(key, CACHE_DURATION)

get_from_cache(key) ==
    IF key \in DOMAIN cache THEN Some(cache[key][1]) ELSE None

\* an insert that keeps the timestamp of an entry it replaces
store_in_cache_keeping_stamp(key, data) ==
    [k \in DOMAIN cache \cup {key} |->
        IF k = key
        THEN <<data, IF key \in DOMAIN cache THEN cache[key][2] ELSE now>>
        ELSE cache[k]]

\* an insert that sweeps out the other entries older than CACHE_DURATION
store_in_cache_sweeping(key, data) ==
    [k \in {key} \cup {j \in DOMAIN cache :
                          num_seconds(now - cache[j][2]) < CACHE_DURATION} |->
        IF k = key THEN <<data, now>> ELSE cache[k]]

\* the map after cache.insert(key, (data, Utc::now()))
store_in_cache(key, data) ==
    [k \in DOMAIN cache \cup {key} |->
        IF k = key THEN <<data, now>> ELSE cache[k]]


----------------------------------------------------------------------------
(* Text: the str methods the handlers use.  A character is a string of     *)
(* length one.                                                             *)

Digits == "0123456789"

DigitVal(c) == CHOOSE d \in 0..9 : SubSeq(Digits, d + 1, d + 1) = c

\* a match at the start of the text only
contains_at_start(s, pat) ==
    Len(s) >= Len(pat) /\ SubSeq(s, 1, Len(pat)) = pat

\* str::contains(pat)
contains(s, pat) ==
    \E i \in 1..(Len(s) - Len(pat) + 1) : SubSeq(s, i, i + Len(pat) - 1) = pat

\* str::starts_with(pat)
starts_with(s, pat) == Len(s) >= Len(pat) /\ SubSeq(s, 1, Len(pat)) = pat

\* str::split(ch): the pieces between the occurrences of ch, at least one
RECURSIVE split(_, _)
split(s, ch) ==
    LET hits == { i \in 1..Len(s) : SubSeq(s, i, i) = ch }
        first == CHOOSE i \in hits : \A j \in hits : i <= j
    IN IF hits = {} THEN <<s>>
       ELSE <<SubSeq(s, 1, first - 1)>> \o split(SubSeq(s, first + 1, Len(s)), ch)

\* Iterator::nth(n).unwrap_or(default), n counted from 0
nth_or(pieces, n, default) ==
    IF n + 1 <= Len(pieces) THEN pieces[n + 1] ELSE default

\* str::lines(): split at "\n", a final empty piece is no line, the "\r" of
\* a line that ends in "\r\n" is dropped
lines(s) ==
    LET pieces == split(s, "\n")
        kept == IF pieces[Len(pieces)] = ""
                THEN SubSeq(pieces, 1, Len(pieces) - 1) ELSE pieces
    IN [i \in 1..Len(kept) |->
           IF /\ i < Len(pieces)
              /\ Len(kept[i]) > 0
              /\ SubSeq(kept[i], Len(kept[i]), Len(kept[i])) = "\r"
           THEN SubSeq(kept[i], 1, Len(kept[i]) - 1) ELSE kept[i]]

Whitespace == {" ", "\n", "\t", "\r"}

\* str::trim_start_matches, for a set of characters
RECURSIVE TrimStartIn(_, _)
TrimStartIn(s, chars) ==
    IF Len(s) > 0 /\ SubSeq(s, 1, 1) \in chars
    THEN TrimStartIn(SubSeq(s, 2, Len(s)), chars) ELSE s

\* str::trim_end_matches, for a set of characters
RECURSIVE TrimEndIn(_, _)
TrimEndIn(s, chars) ==
    IF Len(s) > 0 /\ SubSeq(s, Len(s), Len(s)) \in chars
    THEN TrimEndIn(SubSeq(s, 1, Len(s) - 1), chars) ELSE s

trim(s) == TrimEndIn(TrimStartIn(s, Whitespace), Whitespace)

\* str::len(): the length in bytes of the UTF-8 encoding; of the characters
\* the remote texts use, these take two bytes and every other one takes one
len(s) ==
    Len(s) + Cardinality({ i \in 1..Len(s) : SubSeq(s, i, i) \in {"é", "©"} })
trim_matches(s, ch) == TrimEndIn(TrimStartIn(s, {ch}), {ch})
trim_end_matches(s, ch) == TrimEndIn(s, {ch})

\* str::split_whitespace(): the maximal runs of non-whitespace
RECURSIVE split_whitespace(_)
split_whitespace(s) ==
    LET rest == TrimStartIn(s, Whitespace)
        stops == { i \in 1..Len(rest) : SubSeq(rest, i, i) \in Whitespace }
        stop == CHOOSE i \in stops : \A j \in stops : i <= j
    IN IF rest = "" THEN << >>
       ELSE IF stops = {} THEN <<rest>>
       ELSE <<SubSeq(rest, 1, stop - 1)>>
            \o split_whitespace(SubSeq(rest, stop, Len(rest)))

RECURSIVE DecimalValue(_)
DecimalValue(ds) ==
    IF ds = "" THEN 0
    ELSE 10 * DecimalValue(SubSeq(ds, 1, Len(ds) - 1))
         + DigitVal(SubSeq(ds, Len(ds), Len(ds)))

RECURSIVE StripZeros(_)
StripZeros(ds) ==
    IF Len(ds) > 1 /\ SubSeq(ds, 1, 1) = "0"
    THEN StripZeros(SubSeq(ds, 2, Len(ds))) ELSE ds

\* a <= b for digit strings of the same length
RECURSIVE DigitsLeq(_, _)
DigitsLeq(a, b) ==
    IF a = "" THEN TRUE
    ELSE IF DigitVal(SubSeq(a, 1, 1)) < DigitVal(SubSeq(b, 1, 1)) THEN TRUE
    ELSE IF DigitVal(SubSeq(a, 1, 1)) > DigitVal(SubSeq(b, 1, 1)) THEN FALSE
    ELSE DigitsLeq(SubSeq(a, 2, Len(a)), SubSeq(b, 2, Len(b)))

\* str::parse of an integer type: an optional sign among signs, then one or
\* more digits, the magnitude at most max (given as digits: TLC's integers
\* end at 2^31 - 1, and so do the values among the inputs of the model)
ParseInteger(s, signs, max) ==
    LET signed == Len(s) > 0 /\ SubSeq(s, 1, 1) \in signs
        ds == IF signed THEN SubSeq(s, 2, Len(s)) ELSE s
        sig == StripZeros(ds)
    IN IF /\ Len(ds) > 0
          /\ \A i \in 1..Len(ds) : contains(Digits, SubSeq(ds, i, i))
          /\ \/ Len(sig) < Len(max)
             \/ Len(sig) = Len(max) /\ DigitsLeq(sig, max)
       THEN Some(IF signed /\ SubSeq(s, 1, 1) = "-"
                 THEN 0 - DecimalValue(sig) ELSE DecimalValue(sig))
       ELSE None

parse_u32(s) == ParseInteger(s, {"+"}, "4294967295")
parse_u64(s) == ParseInteger(s, {"+"}, "18446744073709551615")
parse_i64(s) == ParseInteger(s, {"+", "-"}, "9223372036854775807")

\* an f64: a finite value, kept in tenths, or one of NaN, inf, -inf
Finite(t) == [finite |-> TRUE, tenths |-> t]
NonFinite == [finite |-> FALSE, tenths |-> 0]

\* str::to_ascii_lowercase
RECURSIVE to_ascii_lowercase(_)
to_ascii_lowercase(s) ==
    LET upper == "ABCDEFGHIJKLMNOPQRSTUVWXYZ"
        lower == "abcdefghijklmnopqrstuvwxyz"
        c == SubSeq(s, 1, 1)
        at == {i \in 1..Len(upper) : SubSeq(upper, i, i) = c}
    IN IF s = "" THEN ""
       ELSE (IF at = {} THEN c
             ELSE LET i == CHOOSE i \in at : TRUE IN SubSeq(lower, i, i))
            \o to_ascii_lowercase(SubSeq(s, 2, Len(s)))

\* str::parse::<f64>(): an optional sign, then "inf", "infinity" or "nan" in
\* any case, or digits with at most one "." and a digit on one side of it.
\* Exponent forms are not among the inputs of the model; a finite value keeps
\* its first decimal.
parse_f64(s) ==
    LET signed == Len(s) > 0 /\ SubSeq(s, 1, 1) \in {"+", "-"}
        body == IF signed THEN SubSeq(s, 2, Len(s)) ELSE s
        parts == split(body, ".")
        int == parts[1]
        frac == IF Len(parts) = 2 THEN parts[2] ELSE ""
        mag == 10 * DecimalValue(int)
               + (IF frac = "" THEN 0 ELSE DigitVal(SubSeq(frac, 1, 1)))
    IN IF to_ascii_lowercase(body) \in {"nan", "inf", "infinity"}
       THEN Some(NonFinite)
       ELSE IF /\ Len(parts) <= 2
               /\ Len(int) + Len(frac) > 0
               /\ \A i \in 1..Len(int) : contains(Digits, SubSeq(int, i, i))
               /\ \A i \in 1..Len(frac) : contains(Digits, SubSeq(frac, i, i))
       THEN Some(Finite(IF SubSeq(s, 1, 1) = "-" THEN 0 - mag ELSE mag))
       ELSE None

\* Option::unwrap_or
unwrap_or(opt, default) == IF opt = None THEN default ELSE opt[2]

\* Iterator::find: the first position among those that satisfy the test
FirstOf(positions) == CHOOSE i \in positions : \A j \in positions : i <= j

----------------------------------------------------------------------------
(* Remote execution: std::process::Command ... .output()                   *)

\* Command::output() failed: the process could not be launched
LaunchFailure(e) ==
    [launched |-> FALSE, success |-> FALSE, stdout |-> << >>, stderr |-> "",
     error |-> e]

\* the process ran: output.status.success(), stdout, stderr
Exited(ok, out, err) ==
    [launched |-> TRUE, success |-> ok, stdout |-> out, stderr |-> err,
     error |-> ""]

\* a process that could not be launched counts as one that printed nothing
\* and exited zero
UnwrapOrFailed_as_success(out) ==
    IF out.launched THEN out ELSE Exited(TRUE, "", "")

\* .unwrap_or_else(|_| Output { status: from_raw(1), stdout: [], stderr: [] })
UnwrapOrFailed(out) ==
    IF out.launched THEN out ELSE Exited(FALSE, << >>, "")

\* a child started with spawn() and piped stdin: the error of write_all on
\* its stdin and that of wait_with_output, "" for none
Child(out, stdin_error, wait_error) ==
    [launched |-> out.launched, success |-> out.success,
     stdout |-> out.stdout, stderr |-> out.stderr, error |-> out.error,
     stdin_error |-> stdin_error, wait_error |-> wait_error]

\* one spawned process, as the log keeps it: program, arguments, what came back
Run(prog, args, out) == [prog |-> prog, args |-> args, out |-> out]

Ok(v) == [tag |-> "Ok", val |-> v]
Err(msg) == [tag |-> "Err", msg |-> msg]

\* what ssh does with its arguments when no option is given: the first is the
\* destination, the rest is the remote command line
SshDestination(args) == args[1]
SshRemoteCommand(args) == SubSeq(args, 2, Len(args))

----------------------------------------------------------------------------
(* Target addressing *)

get_ssh_target_vm_first(container_id, vm_id) ==
    IF vm_id # None
    THEN CASE vm_id[2] = 500 -> "homeassistant"
           [] vm_id[2] = 611 -> "alexa"
           [] vm_id[2] = 900 -> "ai-system"
           [] OTHER -> "proxmox"
    ELSE IF container_id # None
    THEN "proxmox lxc exec " \o ToString(container_id[2]) \o " --"
    ELSE "proxmox"

get_ssh_target(container_id, vm_id) ==
    IF container_id # None
    THEN "proxmox lxc exec " \o ToString(container_id[2]) \o " --"
    ELSE IF vm_id # None
    THEN CASE vm_id[2] = 500 -> "homeassistant"
           [] vm_id[2] = 611 -> "alexa"
           [] vm_id[2] = 900 -> "ai-system"
           [] OTHER -> "proxmox"
    ELSE "proxmox"

----------------------------------------------------------------------------
(* Static catalogues *)

\* the second range ends one id early
get_container_category_narrow(container_id) ==
    CASE container_id \in 100..199 -> "Core Infrastructure"
      [] container_id \in 210..228 -> "Essential Media Services"
      [] container_id \in 230..239 -> "Media Servers"
      [] container_id \in 240..250 -> "Enhancement Services"
      [] container_id \in 260..269 -> "Monitoring & Analytics"
      [] container_id \in 270..279 -> "Management & Utilities"
      [] OTHER -> "Other"

get_container_category(container_id) ==
    CASE container_id \in 100..199 -> "Core Infrastructure"
      [] container_id \in 210..229 -> "Essential Media Services"
      [] container_id \in 230..239 -> "Media Servers"
      [] container_id \in 240..250 -> "Enhancement Services"
      [] container_id \in 260..269 -> "Monitoring & Analytics"
      [] container_id \in 270..279 -> "Management & Utilities"
      [] OTHER -> "Other"

\* container_metadata of get_system_overview: <<id, name, description, category>>
container_metadata ==
    << <<100, "WireGuard", "VPN access and secure tunneling", "Core Infrastructure">>,
       <<101, "Gluetun", "VPN client container for other services", "Core Infrastructure">>,
       <<102, "Flaresolverr", "Cloudflare solver proxy", "Core Infrastructure">>,
       <<103, "Traefik", "Reverse proxy and load balancer", "Core Infrastructure">>,
       <<104, "Vaultwarden", "Password manager server", "Core Infrastructure">>,
       <<105, "Valkey", "Redis-compatible in-memory database", "Core Infrastructure">>,
       <<106, "PostgreSQL", "Primary database server", "Core Infrastructure">>,
       <<107, "Authentik", "Identity provider and SSO", "Core Infrastructure">>,
       <<210, "Prowlarr", "Indexer manager and proxy", "Essential Media Services">>,
       <<211, "Jackett", "Torrent indexer proxy", "Essential Media Services">>,
       <<212, "QBittorrent", "BitTorrent client", "Essential Media Services">>,
       <<214, "Sonarr", "TV series management", "Essential Media Services">>,
       <<215, "Radarr", "Movie management", "Essential Media Services">>,
       <<216, "Proxarr", "Proxy management for *arr apps", "Essential Media Services">>,
       <<217, "Readarr", "Book and audiobook management", "Essential Media Services">>,
       <<219, "Whisparr", "Adult content management", "Essential Media Services">>,
       <<220, "Sonarr Extended", "Extended TV series management", "Essential Media Services">>,
       <<221, "Radarr Extended", "Extended movie management", "Essential Media Services">>,
       <<223, "Autobrr", "Automated torrent management", "Essential Media Services">>,
       <<224, "Deluge", "Alternative BitTorrent client", "Essential Media Services">>,
       <<230, "Plex", "Media server and streaming platform", "Media Servers">>,
       <<231, "Jellyfin", "Open-source media server", "Media Servers">>,
       <<232, "Audiobookshelf", "Audiobook and podcast server", "Media Servers">>,
       <<233, "Calibre-web", "E-book server and manager", "Media Servers">>,
       <<234, "IPTV-Proxy", "IPTV streaming proxy", "Media Servers">>,
       <<235, "TVHeadend", "TV streaming server", "Media Servers">>,
       <<236, "Tdarr Server", "Media transcoding server", "Media Servers">>,
       <<237, "Tdarr Node", "Media transcoding worker", "Media Servers">>,
       <<240, "Bazarr", "Subtitle management", "Enhancement Services">>,
       <<241, "Overseerr", "Media request management", "Enhancement Services">>,
       <<242, "Jellyseerr", "Jellyfin request management", "Enhancement Services">>,
       <<243, "Ombi", "Media request platform", "Enhancement Services">>,
       <<244, "Tautulli", "Plex monitoring and statistics", "Enhancement Services">>,
       <<245, "Kometa", "Plex metadata management", "Enhancement Services">>,
       <<246, "Gaps", "Plex collection gap finder", "Enhancement Services">>,
       <<247, "Janitorr", "Media cleanup automation", "Enhancement Services">>,
       <<248, "Decluttarr", "Media library decluttering", "Enhancement Services">>,
       <<249, "Watchlistarr", "Watchlist synchronization", "Enhancement Services">>,
       <<250, "Traktarr", "Trakt.tv integration", "Enhancement Services">>,
       <<260, "Prometheus", "Metrics collection and monitoring", "Monitoring & Analytics">>,
       <<261, "Grafana", "Metrics visualization and dashboards", "Monitoring & Analytics">>,
       <<262, "Checkrr", "Service health checking", "Monitoring & Analytics">>,
       <<270, "FileBot", "File renaming and organization", "Management & Utilities">>,
       <<271, "FlexGet", "Automated content downloading", "Management & Utilities">>,
       <<272, "Buildarr", "Configuration management for *arr apps", "Management & Utilities">>,
       <<274, "Organizr", "Service organization dashboard", "Management & Utilities">>,
       <<275, "Homarr", "Modern dashboard for services", "Management & Utilities">>,
       <<276, "Homepage", "Customizable homepage dashboard", "Management & Utilities">>,
       <<277, "Recyclarr", "Configuration recycling for *arr apps", "Management & Utilities">>,
       <<278, "CrowdSec", "Collaborative security engine", "Management & Utilities">>,
       <<279, "Tailscale", "Secure networking mesh", "Management & Utilities">> >>

\* vm_metadata of get_system_overview: <<id, name, description>>
vm_metadata ==
    << <<500, "Home Assistant", "Home automation platform">>,
       <<611, "Ziggy", "Media bridging and streaming VM">>,
       <<612, "Bliss OS Android", "Android emulation and testing environment">>,
       <<900, "AI System", "Artificial intelligence services">> >>

get_container_description(container_id) ==
    CASE container_id = 100 -> "VPN access and secure tunneling"
      [] container_id = 101 -> "VPN client container for other services"
      [] container_id = 102 -> "Cloudflare solver proxy"
      [] container_id = 103 -> "Reverse proxy and load balancer"
      [] container_id = 104 -> "Password manager server"
      [] container_id = 105 -> "Redis-compatible in-memory database"
      [] container_id = 106 -> "Primary database server"
      [] container_id = 107 -> "Identity provider and SSO"
      [] OTHER -> "Service container"

get_vm_name(vm_id) ==
    CASE vm_id = 500 -> "Home Assistant"
      [] vm_id = 611 -> "Ziggy"
      [] vm_id = 612 -> "Bliss OS Android"
      [] vm_id = 900 -> "AI System"
      [] OTHER -> "VM " \o ToString(vm_id)

get_vm_description(vm_id) ==
    CASE vm_id = 500 -> "Home automation platform"
      [] vm_id = 611 -> "Media bridging and streaming VM"
      [] vm_id = 612 -> "Android emulation and testing environment"
      [] vm_id = 900 -> "Artificial intelligence services"
      [] OTHER -> "Virtual machine"

get_container_display_name(container_id) ==
    CASE container_id = 100 -> "WireGuard"
      [] container_id = 101 -> "Gluetun"
      [] container_id = 102 -> "Flaresolverr"
      [] container_id = 103 -> "Traefik"
      [] container_id = 104 -> "Vaultwarden"
      [] container_id = 105 -> "Valkey"
      [] container_id = 106 -> "PostgreSQL"
      [] container_id = 107 -> "Authentik"
      [] container_id = 210 -> "Prowlarr"
      [] container_id = 211 -> "Jackett"
      [] container_id = 212 -> "QBittorrent"
      [] container_id = 214 -> "Sonarr"
      [] container_id = 215 -> "Radarr"
      [] container_id = 216 -> "Proxarr"
      [] container_id = 217 -> "Readarr"
      [] container_id = 219 -> "Whisparr"
      [] container_id = 220 -> "Sonarr Extended"
      [] container_id = 221 -> "Radarr Extended"
      [] container_id = 223 -> "Autobrr"
      [] container_id = 224 -> "Deluge"
      [] container_id = 230 -> "Plex"
      [] container_id = 231 -> "Jellyfin"
      [] container_id = 232 -> "Audiobookshelf"
      [] container_id = 233 -> "Calibre-web"
      [] container_id = 234 -> "IPTV-Proxy"
      [] container_id = 235 -> "TVHeadend"
      [] container_id = 236 -> "Tdarr Server"
      [] container_id = 237 -> "Tdarr Node"
      [] container_id = 240 -> "Bazarr"
      [] container_id = 241 -> "Overseerr"
      [] container_id = 242 -> "Jellyseerr"
      [] container_id = 243 -> "Ombi"
      [] container_id = 244 -> "Tautulli"
      [] container_id = 245 -> "Kometa"
      [] container_id = 246 -> "Gaps"
      [] container_id = 247 -> "Janitorr"
      [] container_id = 248 -> "Decluttarr"
      [] container_id = 249 -> "Watchlistarr"
      [] container_id = 250 -> "Traktarr"
      [] container_id = 260 -> "Prometheus"
      [] container_id = 261 -> "Grafana"
      [] container_id = 262 -> "Checkrr"
      [] container_id = 270 -> "FileBot"
      [] container_id = 271 -> "FlexGet"
      [] container_id = 272 -> "Buildarr"
      [] container_id = 274 -> "Organizr"
      [] container_id = 275 -> "Homarr"
      [] container_id = 276 -> "Homepage"
      [] container_id = 277 -> "Recyclarr"
      [] container_id = 278 -> "CrowdSec"
      [] container_id = 279 -> "Tailscale"
      [] container_id = 900 -> "AI Container"
      [] OTHER -> "CT-" \o ToString(container_id)

get_container_web_ui_url(container_id) ==
    CASE container_id = 100 -> Some("http://192.168.122.100:51820")
      [] container_id = 103 -> Some("http://192.168.122.103:8080")
      [] container_id = 104 -> Some("http://192.168.122.104:80")
      [] container_id = 107 -> Some("http://192.168.122.107:9000")
      [] container_id = 210 -> Some("http://192.168.122.210:9696")
      [] container_id = 211 -> Some("http://192.168.122.211:9117")
      [] container_id = 212 -> Some("http://192.168.122.212:8080")
      [] container_id = 214 -> Some("http://192.168.122.214:8989")
      [] container_id = 215 -> Some("http://192.168.122.215:7878")
      [] container_id = 217 -> Some("http://192.168.122.217:8787")
      [] container_id = 219 -> Some("http://192.168.122.219:6969")
      [] container_id = 220 -> Some("http://192.168.122.220:8989")
      [] container_id = 221 -> Some("http://192.168.122.221:7878")
      [] container_id = 223 -> Some("http://192.168.122.223:7474")
      [] container_id = 224 -> Some("http://192.168.122.224:8112")
      [] container_id = 230 -> Some("http://192.168.122.230:32400")
      [] container_id = 231 -> Some("http://192.168.122.231:8096")
      [] container_id = 232 -> Some("http://192.168.122.232:13378")
      [] container_id = 233 -> Some("http://192.168.122.233:8083")
      [] container_id = 235 -> Some("http://192.168.122.235:9981")
      [] container_id = 236 -> Some("http://192.168.122.236:8265")
      [] container_id = 240 -> Some("http://192.168.122.240:6767")
      [] container_id = 241 -> Some("http://192.168.122.241:5055")
      [] container_id = 242 -> Some("http://192.168.122.242:5055")
      [] container_id = 243 -> Some("http://192.168.122.243:3579")
      [] container_id = 244 -> Some("http://192.168.122.244:8181")
      [] container_id = 261 -> Some("http://192.168.122.261:3000")
      [] container_id = 274 -> Some("http://192.168.122.274:80")
      [] container_id = 275 -> Some("http://192.168.122.275:7575")
      [] container_id = 276 -> Some("http://192.168.122.276:3000")
      [] OTHER -> None

----------------------------------------------------------------------------
(* Status of one container, of one VM.  A handler is an operator of its    *)
(* arguments and of o, the outcomes of the processes it spawns: its i-th   *)
(* process gets o[i].  It yields the processes spawned, in order, and the  *)
(* value returned.                                                         *)

\* the same, with `?` on the two enrichment commands: one that cannot be
\* launched fails the fetch
get_container_status_propagating(container_id, o) ==
    LET id == ToString(container_id)
        status_call == Run("ssh", <<"proxmox", "pct", "status", id>>, o[1])
        status_str == o[1].stdout
        status == IF contains(status_str, "running") THEN "Running"
                  ELSE IF contains(status_str, "stopped") THEN "Stopped"
                  ELSE "Unknown"
        os_call == Run("timeout", <<"3", "ssh", "proxmox", "pct", "exec", id,
                                    "--", "cat", "/etc/os-release">>, o[2])
        os_lines == lines(o[2].stdout)
        name_at == {i \in 1..Len(os_lines) : starts_with(os_lines[i], "NAME=")}
        os_name == trim_matches(
                       nth_or(split(os_lines[FirstOf(name_at)], "="), 1,
                              "Unknown"), "\"")
        os_info_str ==
            IF /\ status = "Running"
               /\ o[2].launched /\ o[2].success
               /\ name_at # {}
               /\ os_name # "" /\ os_name # "Unknown"
            THEN Some(os_name) ELSE None
        config_call == Run("timeout", <<"2", "ssh", "proxmox", "pct", "config",
                                        id>>, o[3])
        config_lines == lines(o[3].stdout)
        mem_at == {i \in 1..Len(config_lines) :
                      /\ starts_with(config_lines[i], "memory:")
                      /\ parse_f64(trim(split(config_lines[i], ":")[2])) # None}
        memory_usage ==
            IF /\ status = "Running"
               /\ o[3].launched /\ o[3].success
               /\ mem_at # {}
            THEN parse_f64(trim(split(config_lines[FirstOf(mem_at)], ":")[2]))[2]
            ELSE Finite(((container_id * 15) % 1024) * 10)
    IN IF ~o[1].launched
       THEN [calls |-> <<status_call>>,
             result |-> Err("Failed to execute SSH command: " \o o[1].error)]
       ELSE IF ~o[1].success
       THEN [calls |-> <<status_call>>,
             result |-> Err("Command failed: " \o o[1].stderr)]
       ELSE IF status = "Running" /\ ~o[2].launched
       THEN [calls |-> <<status_call, os_call>>,
             result |-> Err("Failed to execute SSH command: " \o o[2].error)]
       ELSE IF status = "Running" /\ ~o[3].launched
       THEN [calls |-> <<status_call, os_call, config_call>>,
             result |-> Err("Failed to execute SSH command: " \o o[3].error)]
       ELSE [calls |-> IF status = "Running"
                       THEN <<status_call, os_call, config_call>>
                       ELSE <<status_call>>,
             result |-> Ok([id |-> container_id,
                            name |-> get_container_display_name(container_id),
                            status |-> status,
                            uptime |-> IF status = "Running"
                                       THEN "Running" ELSE "Stopped",
                            cpu_usage |-> Finite((container_id * 12) % 1000),
                            memory_usage |-> memory_usage,
                            category |-> get_container_category(container_id),
                            description |-> get_container_description(container_id),
                            web_ui_url |-> get_container_web_ui_url(container_id),
                            os_info |-> os_info_str,
                            running_processes |-> << >>])]

get_container_status(container_id, o) ==
    LET id == ToString(container_id)
        status_call == Run("ssh", <<"proxmox", "pct", "status", id>>, o[1])
        status_str == o[1].stdout
        status == IF contains(status_str, "running") THEN "Running"
                  ELSE IF contains(status_str, "stopped") THEN "Stopped"
                  ELSE "Unknown"
        os_call == Run("timeout", <<"3", "ssh", "proxmox", "pct", "exec", id,
                                    "--", "cat", "/etc/os-release">>, o[2])
        os_lines == lines(o[2].stdout)
        name_at == {i \in 1..Len(os_lines) : starts_with(os_lines[i], "NAME=")}
        os_name == trim_matches(
                       nth_or(split(os_lines[FirstOf(name_at)], "="), 1,
                              "Unknown"), "\"")
        os_info_str ==
            IF /\ status = "Running"
               /\ o[2].launched /\ o[2].success
               /\ name_at # {}
               /\ os_name # "" /\ os_name # "Unknown"
            THEN Some(os_name) ELSE None
        config_call == Run("timeout", <<"2", "ssh", "proxmox", "pct", "config",
                                        id>>, o[3])
        config_lines == lines(o[3].stdout)
        mem_at == {i \in 1..Len(config_lines) :
                      /\ starts_with(config_lines[i], "memory:")
                      /\ parse_f64(trim(split(config_lines[i], ":")[2])) # None}
        memory_usage ==
            IF /\ status = "Running"
               /\ o[3].launched /\ o[3].success
               /\ mem_at # {}
            THEN parse_f64(trim(split(config_lines[FirstOf(mem_at)], ":")[2]))[2]
            ELSE Finite(((container_id * 15) % 1024) * 10)
    IN IF ~o[1].launched
       THEN [calls |-> <<status_call>>,
             result |-> Err("Failed to execute SSH command: " \o o[1].error)]
       ELSE IF ~o[1].success
       THEN [calls |-> <<status_call>>,
             result |-> Err("Command failed: " \o o[1].stderr)]
       ELSE [calls |-> IF status = "Running"
                       THEN <<status_call, os_call, config_call>>
                       ELSE <<status_call>>,
             result |-> Ok([id |-> container_id,
                            name |-> get_container_display_name(container_id),
                            status |-> status,
                            uptime |-> IF status = "Running"
                                       THEN "Running" ELSE "Stopped",
                            cpu_usage |-> Finite((container_id * 12) % 1000),
                            memory_usage |-> memory_usage,
                            category |-> get_container_category(container_id),
                            description |-> get_container_description(container_id),
                            web_ui_url |-> get_container_web_ui_url(container_id),
                            os_info |-> os_info_str,
                            running_processes |-> << >>])]

get_vm_status(vm_id, o) ==
    LET id == ToString(vm_id)
        status_call == Run("ssh", <<"proxmox", "qm", "status", id>>, o[1])
        status_output == o[1].stdout
        status == IF contains(status_output, "running") THEN "Running"
                  ELSE IF contains(status_output, "stopped") THEN "Stopped"
                  ELSE "Unknown"
        uptime_call == Run("ssh", <<"proxmox", "qm", "monitor", id, "--",
                                    "info", "status">>, o[2])
        uptime_lines == lines(o[2].stdout)
        uptime_at == {i \in 1..Len(uptime_lines) :
                         contains(uptime_lines[i], "VM uptime")}
        uptime ==
            IF /\ status = "Running"
               /\ o[2].launched /\ o[2].success
               /\ uptime_at # {}
            THEN trim(nth_or(split(uptime_lines[FirstOf(uptime_at)], ":"), 1,
                             "Unknown"))
            ELSE "Unknown"
    IN IF ~o[1].launched
       THEN [calls |-> <<status_call>>,
             result |-> Err("Failed to execute SSH command: " \o o[1].error)]
       ELSE IF ~o[1].success
       THEN [calls |-> <<status_call>>,
             result |-> Err("Command failed: " \o o[1].stderr)]
       ELSE [calls |-> IF status = "Running"
                       THEN <<status_call, uptime_call>>
                       ELSE <<status_call>>,
             result |-> Ok([id |-> vm_id,
                            name |-> get_vm_name(vm_id),
                            status |-> status,
                            uptime |-> uptime,
                            cpu_usage |-> IF status = "Running"
                                          THEN Finite((vm_id * 15) % 1000)
                                          ELSE Finite(0),
                            memory_usage |-> IF status = "Running"
                                             THEN Finite(((vm_id * 100) % 4096) * 10)
                                             ELSE Finite(0),
                            description |-> get_vm_description(vm_id)])]

----------------------------------------------------------------------------
(* Control of one container, one VM, one service *)

\* the same, taking a launched command for a successful one
HostControl_unchecked(tool, verb, id, done, failed, o) ==
    [calls |-> <<Run("ssh", <<"proxmox", tool, verb, ToString(id)>>, o[1])>>,
     result |-> IF ~o[1].launched
                THEN Err("Failed to execute SSH command: " \o o[1].error)
                ELSE Ok(done)]

\* start_container .. reset_vm: one ssh to the host running pct or qm with
\* the verb and the id; done and failed are the handler's two messages
HostControl(tool, verb, id, done, failed, o) ==
    [calls |-> <<Run("ssh", <<"proxmox", tool, verb, ToString(id)>>, o[1])>>,
     result |-> IF ~o[1].launched
                THEN Err("Failed to execute SSH command: " \o o[1].error)
                ELSE IF o[1].success
                THEN Ok(done)
                ELSE Err(failed \o o[1].stderr)]

control_service(service_name, action, container_id, vm_id, o) ==
    LET target == get_ssh_target(container_id, vm_id)
    IN [calls |-> <<Run("ssh", <<target, "systemctl", action, service_name>>,
                        o[1])>>,
        result |->
            IF ~o[1].launched
            THEN Err("Failed to execute SSH command: " \o o[1].error)
            ELSE IF o[1].success
            THEN Ok([success |-> TRUE,
                     message |-> "Service " \o service_name \o " " \o action
                                 \o " successfully",
                     actions_taken |-> <<action \o " action for service "
                                         \o service_name>>,
                     timestamp |-> now])
            ELSE Err("Failed to " \o action \o " service " \o service_name
                     \o ": " \o o[1].stderr)]

----------------------------------------------------------------------------
(* Maintenance checks of one service, one binary, one config file *)

check_service_status(service_name, container_id, vm_id, o) ==
    LET target == get_ssh_target(container_id, vm_id)
        status_call == Run("ssh", <<target, "systemctl", "status",
                                    service_name>>, o[1])
        active == contains(o[1].stdout, "Active: active")
        enabled_call == Run("ssh", <<target, "systemctl", "is-enabled",
                                     service_name>>, o[2])
        enabled == trim(UnwrapOrFailed(o[2]).stdout) = "enabled"
    IN IF ~o[1].launched
       THEN [calls |-> <<status_call>>,
             result |-> Err("Failed to execute SSH command: " \o o[1].error)]
       ELSE [calls |-> <<status_call, enabled_call>>,
             result |-> Ok([name |-> service_name,
                            status |-> IF active THEN "Active" ELSE "Inactive",
                            enabled |-> enabled,
                            active |-> active,
                            description |-> "Service: " \o service_name,
                            container_id |-> container_id,
                            vm_id |-> vm_id])]

search_paths ==
    <<"/opt/*/bin", "/opt/bin", "/usr/local/sbin", "/usr/games", "/snap/bin",
      "~/.local/bin", "/home/*/bin", "/var/lib/*/bin", "/srv/*/bin",
      "/app/bin", "/config/bin", "/data/bin", "/media/*/bin", "/mnt/*/bin">>

\* the loop does not leave at a match: every directory is probed and the
\* first match is kept
RECURSIVE SearchFrom_to_the_end(_, _, _, _, _)
SearchFrom_to_the_end(target, binary_name, o, k, i) ==
    IF i > Len(search_paths) \/ k > Len(o) THEN [calls |-> << >>, found |-> None]
    ELSE LET find_call ==
                 Run("ssh", <<target, "find", search_paths[i], "-name",
                              binary_name, "-type", "f", "-executable",
                              "2>/dev/null", "|", "head", "-1">>, o[k])
             found_path == trim(o[k].stdout)
             rest == SearchFrom_to_the_end(target, binary_name, o, k + 1, i + 1)
         IN [calls |-> <<find_call>> \o rest.calls,
             found |-> IF o[k].launched /\ o[k].success /\ found_path # ""
                       THEN Some(found_path) ELSE rest.found]

\* the loop over search_paths from its i-th directory on, the next process
\* being the k-th of the handler: the processes spawned and the path found
RECURSIVE SearchFrom(_, _, _, _, _)
SearchFrom(target, binary_name, o, k, i) ==
    IF i > Len(search_paths) THEN [calls |-> << >>, found |-> None]
    ELSE LET find_call ==
                 Run("ssh", <<target, "find", search_paths[i], "-name",
                              binary_name, "-type", "f", "-executable",
                              "2>/dev/null", "|", "head", "-1">>, o[k])
             found_path == trim(o[k].stdout)
         IN IF o[k].launched /\ o[k].success /\ found_path # ""
            THEN [calls |-> <<find_call>>, found |-> Some(found_path)]
            ELSE LET rest == SearchFrom(target, binary_name, o, k + 1, i + 1)
                 IN [calls |-> <<find_call>> \o rest.calls,
                     found |-> rest.found]

alt_commands == <<"-v", "-V", "version", "--help">>

\* the loop does not leave at an accepted line: every flag is tried and the
\* first accepted line is kept
RECURSIVE AltVersionFrom_to_the_end(_, _, _, _, _)
AltVersionFrom_to_the_end(target, path, o, k, i) ==
    IF i > Len(alt_commands) \/ k > Len(o)
    THEN [calls |-> << >>, version |-> "Unknown"]
    ELSE LET alt_call == Run("ssh", <<target, path, alt_commands[i]>>, o[k])
             output_lines == lines(o[k].stdout)
             rest == AltVersionFrom_to_the_end(target, path, o, k + 1, i + 1)
         IN [calls |-> <<alt_call>> \o rest.calls,
             version |-> IF /\ o[k].launched /\ o[k].success
                            /\ Len(output_lines) > 0
                            /\ output_lines[1] # "" /\ len(output_lines[1]) < 200
                         THEN output_lines[1] ELSE rest.version]

\* the loop over alt_commands from its i-th on: the processes spawned and
\* version_found
RECURSIVE AltVersionFrom(_, _, _, _, _)
AltVersionFrom(target, path, o, k, i) ==
    IF i > Len(alt_commands) THEN [calls |-> << >>, version |-> "Unknown"]
    ELSE LET alt_call == Run("ssh", <<target, path, alt_commands[i]>>, o[k])
             output_lines == lines(o[k].stdout)
         IN IF /\ o[k].launched /\ o[k].success
               /\ Len(output_lines) > 0
               /\ output_lines[1] # "" /\ len(output_lines[1]) < 200
            THEN [calls |-> <<alt_call>>, version |-> output_lines[1]]
            ELSE LET rest == AltVersionFrom(target, path, o, k + 1, i + 1)
                 IN [calls |-> <<alt_call>> \o rest.calls,
                     version |-> rest.version]

check_binary(binary_name, container_id, vm_id, o) ==
    LET target == get_ssh_target(container_id, vm_id)
        which_call == Run("ssh", <<target, "which", binary_name>>, o[1])
        in_path == o[1].success
        search == IF in_path THEN [calls |-> << >>, found |-> None]
                  ELSE SearchFrom(target, binary_name, o, 2, 1)
        exists == in_path \/ search.found # None
        path == IF in_path THEN trim(o[1].stdout)
                ELSE unwrap_or(search.found, "Not found")
        kv == 2 + Len(search.calls)
        version_call == Run("ssh", <<target, path, "--version">>, o[kv])
        version_lines == lines(o[kv].stdout)
        alt == IF exists /\ o[kv].launched /\ ~o[kv].success
               THEN AltVersionFrom(target, path, o, kv + 1, 1)
               ELSE [calls |-> << >>, version |-> "Unknown"]
        version == IF ~exists THEN "N/A"
                   ELSE IF ~o[kv].launched THEN "Unknown"
                   ELSE IF o[kv].success
                   THEN (IF Len(version_lines) > 0
                         THEN version_lines[1] ELSE "Unknown")
                   ELSE alt.version
        kx == kv + 1 + Len(alt.calls)
        test_call == Run("ssh", <<target, "test", "-x", path>>, o[kx])
        executable == exists /\ o[kx].launched /\ o[kx].success
    IN IF ~o[1].launched
       THEN [calls |-> <<which_call>>,
             result |-> Err("Failed to execute SSH command: " \o o[1].error)]
       ELSE [calls |-> <<which_call>> \o search.calls
                       \o (IF exists
                           THEN <<version_call>> \o alt.calls \o <<test_call>>
                           ELSE << >>),
             result |-> Ok([name |-> binary_name,
                            path |-> path,
                            version |-> version,
                            exists |-> exists,
                            executable |-> executable,
                            container_id |-> container_id,
                            vm_id |-> vm_id])]

\* DateTime::from_timestamp(timestamp, 0) formatted "%Y-%m-%d %H:%M:%S": one
\* text for each second
FormatTimestamp(timestamp) == "date(" \o ToString(timestamp) \o ")"

check_config(config_path, container_id, vm_id, o) ==
    LET target == get_ssh_target(container_id, vm_id)
        exists_call == Run("ssh", <<target, "test", "-f", config_path>>, o[1])
        exists == o[1].success
        readable_call == Run("ssh", <<target, "test", "-r", config_path>>, o[2])
        writable_call == Run("ssh", <<target, "test", "-w", config_path>>, o[3])
        stat_call == Run("ssh", <<target, "stat", "-c", "%s %Y", config_path>>,
                         o[4])
        parts == split_whitespace(trim(UnwrapOrFailed(o[4]).stdout))
        size == IF Len(parts) >= 1 THEN unwrap_or(parse_u64(parts[1]), 0) ELSE 0
        modified == IF Len(parts) >= 2 /\ parse_i64(parts[2]) # None
                    THEN FormatTimestamp(parse_i64(parts[2])[2])
                    ELSE "Unknown"
        segments == split(config_path, "/")
    IN IF ~o[1].launched
       THEN [calls |-> <<exists_call>>,
             result |-> Err("Failed to execute SSH command: " \o o[1].error)]
       ELSE [calls |-> IF exists
                       THEN <<exists_call, readable_call, writable_call,
                              stat_call>>
                       ELSE <<exists_call>>,
             result |-> Ok([name |-> segments[Len(segments)],
                            path |-> config_path,
                            exists |-> exists,
                            readable |-> exists /\ UnwrapOrFailed(o[2]).success,
                            writable |-> exists /\ UnwrapOrFailed(o[3]).success,
                            size |-> IF exists THEN size ELSE 0,
                            modified |-> IF exists THEN modified ELSE "N/A",
                            container_id |-> container_id,
                            vm_id |-> vm_id])]

----------------------------------------------------------------------------
(* Reading and writing one config file *)

read_config(config_path, container_id, vm_id, o) ==
    LET target == get_ssh_target(container_id, vm_id)
    IN [calls |-> <<Run("ssh", <<target, "cat", config_path>>, o[1])>>,
        result |-> IF ~o[1].launched
                   THEN Err("Failed to execute SSH command: " \o o[1].error)
                   ELSE IF o[1].success
                   THEN Ok(o[1].stdout)
                   ELSE Err("Failed to read config file: " \o o[1].stderr)]

\* o[2] is the tee child: launched is spawn() succeeding, stdin_error the
\* failure of write_all ("" when the write succeeds), wait_error that of
\* wait_with_output
write_config(config_path, content, container_id, vm_id, o) ==
    LET target == get_ssh_target(container_id, vm_id)
        backup_call == Run("ssh", <<target, "cp", config_path,
                                    config_path \o ".backup">>, o[1])
        tee_call == Run("ssh", <<target, "tee", config_path>>, o[2])
    IN [calls |-> <<backup_call, tee_call>>,
        result |->
            IF ~o[2].launched
            THEN Err("Failed to spawn command: " \o o[2].error)
            ELSE IF o[2].stdin_error # ""
            THEN Err("Failed to write to stdin: " \o o[2].stdin_error)
            ELSE IF o[2].wait_error # ""
            THEN Err("Failed to wait for command: " \o o[2].wait_error)
            ELSE IF o[2].success
            THEN Ok("Config file " \o config_path \o " updated successfully")
            ELSE Err("Failed to write config file: " \o o[2].stderr)]

read_container_config(container_id, config_path, o) ==
    [calls |-> <<Run("ssh", <<"proxmox",
                              "pct exec " \o ToString(container_id)
                              \o " -- cat '" \o config_path \o "'">>, o[1])>>,
     result |-> IF ~o[1].launched
                THEN Err("Failed to read config: " \o o[1].error)
                ELSE Ok(o[1].stdout)]

\* the tee child is spawned and dropped: nothing is written to its stdin and
\* its exit is not awaited
write_container_config(container_id, config_path, content, o) ==
    LET backup_call ==
            Run("ssh", <<"proxmox",
                         "pct exec " \o ToString(container_id) \o " -- cp '"
                         \o config_path \o "' '" \o config_path \o ".backup-"
                         \o ToString(num_seconds(now)) \o "'">>, o[1])
        tee_call ==
            Run("ssh", <<"proxmox",
                         "pct exec " \o ToString(container_id) \o " -- tee '"
                         \o config_path \o "'">>, o[2])
    IN IF ~o[1].launched
       THEN [calls |-> <<backup_call>>,
             result |-> Err("Failed to create backup: " \o o[1].error)]
       ELSE IF ~o[2].launched
       THEN [calls |-> <<backup_call, tee_call>>,
             result |-> Err("Failed to write config: " \o o[2].error)]
       ELSE [calls |-> <<backup_call, tee_call>>,
             result |-> Ok("Configuration updated successfully")]

----------------------------------------------------------------------------
(* Discovery, the maintenance sweeps, composition and the JSON round trip  *)

\* get_existing_containers (tool "pct") and get_existing_vms (tool "qm")
\* the listing is read up to its first row that is no id
get_existing_ids_until_bad(tool, o) ==
    LET rows == lines(o[1].stdout)
        body == SubSeq(rows, 2, Len(rows))
        id_of(row) == LET words == split_whitespace(row)
                      IN IF Len(words) > 0 THEN parse_u32(words[1]) ELSE None
        bad == {i \in 1..Len(body) : id_of(body[i]) = None}
        good == IF bad = {} THEN body ELSE SubSeq(body, 1, FirstOf(bad) - 1)
    IN [calls |-> <<Run("ssh", <<"proxmox", tool, "list">>, o[1])>>,
        result |-> IF ~o[1].launched
                   THEN Err("Failed to execute SSH command: " \o o[1].error)
                   ELSE IF ~o[1].success
                   THEN Err("Command failed: " \o o[1].stderr)
                   ELSE Ok([i \in 1..Len(good) |-> id_of(good[i])[2]])]

get_existing_ids(tool, o) ==
    LET rows == lines(o[1].stdout)
        body == SubSeq(rows, 2, Len(rows))
        id_of(row) == LET words == split_whitespace(row)
                      IN IF Len(words) > 0 THEN parse_u32(words[1]) ELSE None
        parsed == SelectSeq([i \in 1..Len(body) |-> id_of(body[i])],
                            LAMBDA x : x # None)
    IN [calls |-> <<Run("ssh", <<"proxmox", tool, "list">>, o[1])>>,
        result |-> IF ~o[1].launched
                   THEN Err("Failed to execute SSH command: " \o o[1].error)
                   ELSE IF ~o[1].success
                   THEN Err("Command failed: " \o o[1].stderr)
                   ELSE Ok([i \in 1..Len(parsed) |-> parsed[i][2]])]

\* Result::unwrap_or_default
unwrap_or_default(res, default) == IF res.tag = "Ok" THEN res.val ELSE default

\* a failed fetch leaves a record all the same
Pushed_with_placeholder(list, res, item) ==
    Append(list, IF res.tag = "Ok" THEN item
                 ELSE [id |-> 0, name |-> "", status |-> "Unknown",
                       cpu_usage |-> Finite(0), memory_usage |-> Finite(0)])

\* the records come out newest first
Pushed_in_front(list, res, item) ==
    IF res.tag = "Ok" THEN <<item>> \o list ELSE list

\* if let Ok(..) = res { list.push(item) }
Pushed(list, res, item) ==
    IF res.tag = "Ok" THEN Append(list, item) ELSE list

\* every container is treated as one the catalogue does not hold
OverlayContainer_generic(info) ==
    [info EXCEPT !.name = "Container " \o ToString(info.id),
                 !.category = get_container_category(info.id),
                 !.description = "Unknown container"]

\* the catalogue entry of a container laid over its fetched record
OverlayContainer(info) ==
    LET at == {i \in 1..Len(container_metadata) :
                  container_metadata[i][1] = info.id}
        entry == container_metadata[FirstOf(at)]
    IN IF at # {}
       THEN [info EXCEPT !.name = entry[2], !.category = entry[4],
                         !.description = entry[3]]
       ELSE [info EXCEPT !.name = "Container " \o ToString(info.id),
                         !.category = get_container_category(info.id),
                         !.description = "Unknown container"]

OverlayVm(info) ==
    LET at == {i \in 1..Len(vm_metadata) : vm_metadata[i][1] = info.id}
        entry == vm_metadata[FirstOf(at)]
    IN IF at # {}
       THEN [info EXCEPT !.name = entry[2], !.description = entry[3]]
       ELSE [info EXCEPT !.name = "VM " \o ToString(info.id),
                         !.description = "Unknown virtual machine"]

\* every record counts as running
ComposeSystemOverview_all_running(containers, vms) ==
    [containers |-> containers,
     vms |-> vms,
     total_containers |-> Len(containers),
     running_containers |-> Len(containers),
     total_vms |-> Len(vms),
     running_vms |-> Len(vms),
     last_updated |-> now]

ComposeSystemOverview(containers, vms) ==
    [containers |-> containers,
     vms |-> vms,
     total_containers |-> Len(containers),
     running_containers |->
         Len(SelectSeq(containers, LAMBDA c : c.status = "Running")),
     total_vms |-> Len(vms),
     running_vms |-> Len(SelectSeq(vms, LAMBDA v : v.status = "Running")),
     last_updated |-> now]

\* what the remote side of a maintenance sweep answers on the target of
\* container_id, vm_id: w.reach gives, for the host, the containers and each
\* VM alias, "up" (the answers of up), "refused" (every command exits
\* non-zero) or "unlaunchable" (no command can be started)
OracleFor(w, container_id, vm_id, up) ==
    LET class == IF container_id # None THEN "container"
                 ELSE get_ssh_target(None, vm_id)
        most == Len(search_paths) + Len(alt_commands) + 3
    IN CASE w.reach[class] = "up" -> up
         [] w.reach[class] = "refused" ->
                [k \in 1..most |-> Exited(FALSE, "", "Connection refused")]
         [] w.reach[class] = "unlaunchable" ->
                [k \in 1..most |->
                    LaunchFailure("No such file or directory (os error 2)")]

RECURSIVE Flatten(_)
Flatten(seqs) == IF seqs = << >> THEN << >> ELSE Head(seqs) \o Flatten(Tail(seqs))

\* the loop of get_all_services, get_all_binaries, get_all_configs over the
\* outcomes rs of the checks: the Ok ones kept
CheckAll(rs) ==
    LET oks == SelectSeq(rs, LAMBDA x : x.result.tag = "Ok")
    IN [calls |-> Flatten([i \in 1..Len(rs) |-> rs[i].calls]),
        result |-> Ok([i \in 1..Len(oks) |-> oks[i].result.val])]

get_all_services(w) ==
    LET service_definitions ==
            <<<<"nginx", None, None>>, <<"docker", None, None>>,
              <<"ssh", None, None>>,
              <<"sonarr", Some(214), None>>, <<"radarr", Some(215), None>>,
              <<"prowlarr", Some(210), None>>, <<"qbittorrent", Some(212), None>>,
              <<"plex", Some(230), None>>, <<"jellyfin", Some(231), None>>,
              <<"home-assistant", None, Some(500)>>,
              <<"alexa-service", None, Some(611)>> >>
        up == <<Exited(TRUE, "   Active: active (running)\n", ""),
                  Exited(TRUE, "enabled\n", "")>>
        \* a world that tells the services apart says what the two commands
        \* on each print; any other answers by the reach of the target
        answered(i) ==
            IF "status" \in DOMAIN w THEN w.status[service_definitions[i][1]]
            ELSE OracleFor(w, service_definitions[i][2], service_definitions[i][3], up)
    IN CheckAll([i \in 1..Len(service_definitions) |->
                    check_service_status(service_definitions[i][1], service_definitions[i][2], service_definitions[i][3],
                        answered(i))])

\* fix_all_services that gives up at the first restart that fails
fix_all_services_stopping(w) ==
    LET Fix(checked) ==
            LET services == unwrap_or_default(checked.result, << >>)
                inactive == SelectSeq(services, LAMBDA service : ~service.active)
                restarted == [k \in 1..Len(inactive) |->
                                 control_service(inactive[k].name, "restart",
                                                 inactive[k].container_id,
                                                 inactive[k].vm_id,
                                                 <<w.restart[inactive[k].name]>>)]
                failed == { k \in 1..Len(inactive) :
                               restarted[k].result.tag = "Err" }
                tried == IF failed = {} THEN Len(inactive) ELSE FirstOf(failed)
                success == failed = {}
            IN [calls |-> checked.calls
                          \o Flatten([k \in 1..tried |-> restarted[k].calls]),
                result |->
                    Ok([success |-> success,
                        message |-> IF success THEN "All inactive services fixed."
                                    ELSE "Some services failed to fix.",
                        actions_taken |->
                            [k \in 1..tried |->
                                IF k \in failed
                                THEN "Failed to restart " \o inactive[k].name
                                     \o ": " \o restarted[k].result.msg
                                ELSE "Restarted " \o inactive[k].name],
                        timestamp |-> now])]
    IN Fix(get_all_services(w))

\* the whole handler: the sweep of get_all_services, unwrap_or_default, then
\* one control_service "restart" for each service of the sweep that is not
\* active, in the order of the sweep; w.restart says how the restart of a
\* service ends
fix_all_services(w) ==
    LET Fix(checked) ==
            LET services == unwrap_or_default(checked.result, << >>)
                inactive == SelectSeq(services, LAMBDA service : ~service.active)
                restarted == [k \in 1..Len(inactive) |->
                                 control_service(inactive[k].name, "restart",
                                                 inactive[k].container_id,
                                                 inactive[k].vm_id,
                                                 <<w.restart[inactive[k].name]>>)]
                failed == { k \in 1..Len(inactive) :
                               restarted[k].result.tag = "Err" }
                success == failed = {}
            IN [calls |-> checked.calls
                          \o Flatten([k \in 1..Len(inactive) |->
                                         restarted[k].calls]),
                result |->
                    Ok([success |-> success,
                        message |-> IF success THEN "All inactive services fixed."
                                    ELSE "Some services failed to fix.",
                        actions_taken |->
                            [k \in 1..Len(inactive) |->
                                IF k \in failed
                                THEN "Failed to restart " \o inactive[k].name
                                     \o ": " \o restarted[k].result.msg
                                ELSE "Restarted " \o inactive[k].name],
                        timestamp |-> now])]
    IN Fix(get_all_services(w))

get_all_binaries(w) ==
    LET binary_definitions ==
            <<<<"docker", None, None>>, <<"systemctl", None, None>>,
              <<"nginx", None, None>>,
              <<"sonarr", Some(214), None>>, <<"radarr", Some(215), None>>,
              <<"prowlarr", Some(210), None>>, <<"plex", Some(230), None>>,
              <<"jellyfin", Some(231), None>>,
              <<"python3", None, Some(500)>>, <<"hass", None, Some(500)>> >>
        up == <<Exited(TRUE, "/usr/bin/app\n", ""), Exited(TRUE, "1.0\n", ""),
                  Exited(TRUE, "", "")>>
    IN CheckAll([i \in 1..Len(binary_definitions) |->
                    check_binary(binary_definitions[i][1], binary_definitions[i][2], binary_definitions[i][3],
                        OracleFor(w, binary_definitions[i][2], binary_definitions[i][3], up))])

get_all_configs(w) ==
    LET config_definitions ==
            <<<<"/etc/nginx/nginx.conf", None, None>>,
              <<"/etc/docker/daemon.json", None, None>>,
              <<"/config/config.xml", Some(214), None>>,
              <<"/config/config.xml", Some(215), None>>,
              <<"/config/config.xml", Some(210), None>>,
              <<"/config/qBittorrent/qBittorrent.conf", Some(212), None>>,
              <<"/config/configuration.yaml", None, Some(500)>> >>
        up == <<Exited(TRUE, "", ""), Exited(TRUE, "", ""),
                  Exited(TRUE, "", ""), Exited(TRUE, "120 1700000000\n", "")>>
    IN CheckAll([i \in 1..Len(config_definitions) |->
                    check_config(config_definitions[i][1], config_definitions[i][2], config_definitions[i][3],
                        OracleFor(w, config_definitions[i][2], config_definitions[i][3], up))])

get_system_health(o) ==
    LET df_output == UnwrapOrFailed(o[1])
        df_lines == lines(df_output.stdout)
        columns == IF Len(df_lines) >= 2
                   THEN split_whitespace(df_lines[2]) ELSE << >>
        usage == IF Len(columns) >= 5
                 THEN parse_f64(trim_end_matches(columns[5], "%")) ELSE None
        free_output == UnwrapOrFailed(o[2])
        uptime_output == UnwrapOrFailed(o[3])
    IN [calls |-> <<Run("ssh", <<"proxmox", "df", "-h", "/">>, o[1]),
                    Run("ssh", <<"proxmox", "free", "-m">>, o[2]),
                    Run("ssh", <<"proxmox", "uptime">>, o[3])>>,
        result |-> Ok([disk_usage |-> IF df_output.success
                                      THEN unwrap_or(usage, Finite(0))
                                      ELSE Finite(0),
                       memory_usage |-> IF free_output.success
                                        THEN Finite(500) ELSE Finite(0),
                       cpu_load |-> Finite(0),
                       network_status |-> "Connected",
                       uptime |-> IF uptime_output.success
                                  THEN trim(uptime_output.stdout)
                                  ELSE "Unknown"])]

\* serde_json writes an f64 as a number, and writes NaN and the infinities
\* as null; it reads an f64 from a number only
JsonF64(x) == IF x.finite THEN <<"number", x.tenths>> ELSE <<"null">>

\* serde_json::to_string of a SystemOverview ("system"), of a ProxmoxHostInfo
\* ("host") or of a MaintenanceOverview ("maintenance"): the document, its f64
\* members as JSON.  A ContainerDetail ("detail") and a PerformanceMetrics
\* ("performance") have no f64 member: strings, booleans, integers and the
\* timestamp are written as they are and read back the same
to_string(kind, v) ==
    LET usage(x) == [x EXCEPT !.cpu_usage = JsonF64(x.cpu_usage),
                              !.memory_usage = JsonF64(x.memory_usage)]
        health(h) == [h EXCEPT !.disk_usage = JsonF64(h.disk_usage),
                               !.memory_usage = JsonF64(h.memory_usage),
                               !.cpu_load = JsonF64(h.cpu_load)]
        storage(x) == [x EXCEPT !.usage_percent = JsonF64(x.usage_percent)]
    IN IF kind = "system"
       THEN [v EXCEPT !.containers = [i \in 1..Len(v.containers) |->
                                         usage(v.containers[i])],
                      !.vms = [i \in 1..Len(v.vms) |-> usage(v.vms[i])]]
       ELSE IF kind = "host"
       THEN [v EXCEPT !.storage_info = [i \in 1..Len(v.storage_info) |->
                                           storage(v.storage_info[i])]]
       ELSE IF kind \in {"detail", "performance"}
       THEN v
       ELSE [v EXCEPT !.system_health = health(v.system_health)]

\* serde_json::from_str: Err when a member that must be an f64 is null
from_str(kind, data) ==
    LET number(j) == j[1] = "number"
        usage_ok(x) == number(x.cpu_usage) /\ number(x.memory_usage)
        usage(x) == [x EXCEPT !.cpu_usage = Finite(x.cpu_usage[2]),
                              !.memory_usage = Finite(x.memory_usage[2])]
        h == data.system_health
    IN IF kind = "system"
       THEN IF /\ \A i \in 1..Len(data.containers) : usage_ok(data.containers[i])
               /\ \A i \in 1..Len(data.vms) : usage_ok(data.vms[i])
            THEN Ok([data EXCEPT
                        !.containers = [i \in 1..Len(data.containers) |->
                                           usage(data.containers[i])],
                        !.vms = [i \in 1..Len(data.vms) |-> usage(data.vms[i])]])
            ELSE Err("invalid type: null, expected f64")
       ELSE IF kind = "host"
       THEN IF \A i \in 1..Len(data.storage_info) :
                   number(data.storage_info[i].usage_percent)
            THEN Ok([data EXCEPT
                        !.storage_info =
                            [i \in 1..Len(data.storage_info) |->
                                [data.storage_info[i] EXCEPT
                                    !.usage_percent =
                                        Finite(data.storage_info[i].usage_percent[2])]]])
            ELSE Err("invalid type: null, expected f64")
       ELSE IF kind \in {"detail", "performance"}
       THEN Ok(data)
       ELSE IF number(h.disk_usage) /\ number(h.memory_usage) /\ number(h.cpu_load)
            THEN Ok([data EXCEPT
                        !.system_health =
                            [h EXCEPT !.disk_usage = Finite(h.disk_usage[2]),
                                      !.memory_usage = Finite(h.memory_usage[2]),
                                      !.cpu_load = Finite(h.cpu_load[2])]])
            ELSE Err("invalid type: null, expected f64")

----------------------------------------------------------------------------
(* The host's own record                                                   *)

\* one StorageInfo for each row of pvesm status that has six columns or more.
\* usage_percent is (used / total) * 100.0, kept in tenths and cut, not
\* rounded; a total that is NaN or infinite is not among the inputs of the
\* model
get_storage_info(o) ==
    LET rows == lines(o[1].stdout)
        kept == SelectSeq(SubSeq(rows, 2, Len(rows)),
                          LAMBDA row : Len(split_whitespace(row)) >= 6)
        info(row) ==
            LET parts == split_whitespace(row)
                total_bytes == parse_f64(parts[4])
                used_bytes == parse_f64(parts[5])
            IN [name |-> parts[1], storage_type |-> parts[2],
                total |-> parts[4], used |-> parts[5], available |-> parts[6],
                usage_percent |->
                    IF total_bytes # None /\ used_bytes # None
                    THEN IF total_bytes[2].finite /\ total_bytes[2].tenths > 0
                         THEN IF used_bytes[2].finite
                              THEN Finite((used_bytes[2].tenths * 1000)
                                              \div total_bytes[2].tenths)
                              ELSE NonFinite
                         ELSE Finite(0)
                    ELSE Finite(0)]
    IN [calls |-> <<Run("ssh", <<"proxmox", "pvesm", "status">>, o[1])>>,
        result |-> IF ~o[1].launched
                   THEN Err("Failed to execute SSH command: " \o o[1].error)
                   ELSE Ok(IF o[1].success
                           THEN [i \in 1..Len(kept) |-> info(kept[i])]
                           ELSE << >>)]

\* the whole handler: the cached record if it is fresh and reads back, else
\* the six commands, the record, and the map after store_in_cache
get_proxmox_host_info(o) ==
    LET cache_key == "proxmox_host_info"
        cached_data == get_from_cache(cache_key)
        host_info_read == from_str("host", cached_data[2])
        hostname_output == UnwrapOrFailed(o[1])
        version_output == UnwrapOrFailed(o[2])
        uptime_output == UnwrapOrFailed(o[3])
        cpu_output == UnwrapOrFailed(o[4])
        memory_output == UnwrapOrFailed(o[5])
        version_lines == lines(version_output.stdout)
        memory_lines == lines(memory_output.stdout)
        memory_words == IF Len(memory_lines) >= 2
                        THEN split_whitespace(memory_lines[2]) ELSE << >>
        storage == get_storage_info(<<o[6]>>)
        host_info ==
            [hostname |-> IF hostname_output.success
                          THEN trim(hostname_output.stdout) ELSE "Unknown",
             version |-> IF version_output.success /\ Len(version_lines) > 0
                         THEN version_lines[1] ELSE "Unknown",
             uptime |-> IF uptime_output.success
                        THEN trim(uptime_output.stdout) ELSE "Unknown",
             cpu_count |-> IF cpu_output.success
                           THEN unwrap_or(parse_u32(trim(cpu_output.stdout)), 0)
                           ELSE 0,
             memory_total |-> IF memory_output.success /\ Len(memory_words) >= 2
                              THEN memory_words[2] ELSE "Unknown",
             storage_info |-> unwrap_or_default(storage.result, << >>),
             node_status |-> "Online"]
    IN IF /\ is_cache_valid_with_duration(cache_key, HOST_CACHE_DURATION)
          /\ cached_data # None
          /\ host_info_read.tag = "Ok"
       THEN [calls |-> << >>, result |-> Ok(host_info_read.val), cache |-> cache]
       ELSE [calls |-> <<Run("ssh", <<"proxmox", "hostname">>, o[1]),
                         Run("ssh", <<"proxmox", "pveversion">>, o[2]),
                         Run("ssh", <<"proxmox", "uptime", "-p">>, o[3]),
                         Run("ssh", <<"proxmox", "nproc">>, o[4]),
                         Run("ssh", <<"proxmox", "free", "-h">>, o[5])>>
                       \o storage.calls,
             result |-> Ok(host_info),
             cache |-> store_in_cache(cache_key, to_string("host", host_info))]

----------------------------------------------------------------------------
(* The two other cached records: the metrics of the workstation, the       *)
(* details of one container                                                *)

\* the script could not be started: the record of unknowns is stored all
\* the same
get_performance_metrics_storing_failure(o) ==
    LET cache_key == "performance_metrics"
        cached_data == get_from_cache(cache_key)
        read == from_str("performance", cached_data[2])
        unknown == [cpu_usage |-> "Unknown", memory_usage |-> "Unknown",
                    gpu_status |-> "Unknown", storage_io |-> "Unknown",
                    network_stats |-> "Unknown", load_average |-> "Unknown",
                    timestamp |-> now]
    IN IF /\ is_cache_valid_with_duration(cache_key, PERFORMANCE_CACHE_SECONDS)
          /\ cached_data # None
          /\ read.tag = "Ok"
       THEN [calls |-> << >>, result |-> Ok(read.val), cache |-> cache]
       ELSE [calls |-> <<Run("bash",
                             <<"/home/lou/awesome_stack/scripts/monitor_performance.sh">>,
                             o[1])>>,
             result |-> IF o[1].launched THEN Ok(unknown)
                        ELSE Err("Failed to execute performance monitoring script: "
                                 \o o[1].error),
             cache |-> store_in_cache(cache_key, to_string("performance", unknown))]

\* the whole handler: the cached record if it is fresh and reads back, else
\* the script, the record read off its output (its exit status is not looked
\* at), and the map after store_in_cache
get_performance_metrics(o) ==
    LET cache_key == "performance_metrics"
        cached_data == get_from_cache(cache_key)
        read == from_str("performance", cached_data[2])
        script == Run("bash",
                      <<"/home/lou/awesome_stack/scripts/monitor_performance.sh">>,
                      o[1])
        text == lines(o[1].stdout)
        markers == <<"CPU Usage:", "Memory Usage:", "GPU Status:",
                     "Storage I/O:", "Network:", "Load Average:">>
        \* the branch of the if / else if chain a line takes, 0 for none
        branch(line) ==
            LET hit == { k \in 1..6 : contains(line, markers[k]) }
            IN IF hit = {} THEN 0 ELSE FirstOf(hit)
        taken(k) == { i \in 1..Len(text) : branch(text[i]) = k }
        found(word) == { i \in 1..Len(text) : contains(text[i], word) }
        next_line(k, word) ==
            IF taken(k) # {} /\ found(word) # {}
            THEN trim(text[FirstOf(found(word))]) ELSE "Unknown"
        last(k) == CHOOSE i \in taken(k) : \A j \in taken(k) : j <= i
        performance_metrics ==
            [cpu_usage |-> next_line(1, "Total:"),
             memory_usage |-> next_line(2, "Used:"),
             gpu_status |-> next_line(3, "GPU:"),
             storage_io |-> IF taken(4) # {} THEN "I/O metrics collected"
                            ELSE "Unknown",
             network_stats |-> IF taken(5) # {} THEN "Network metrics collected"
                               ELSE "Unknown",
             load_average |-> IF taken(6) # {}
                              THEN trim(split(text[last(6)], ":")[2])
                              ELSE "Unknown",
             timestamp |-> now]
    IN IF /\ is_cache_valid_with_duration(cache_key, PERFORMANCE_CACHE_SECONDS)
          /\ cached_data # None
          /\ read.tag = "Ok"
       THEN [calls |-> << >>, result |-> Ok(read.val), cache |-> cache]
       ELSE IF ~o[1].launched
       THEN [calls |-> <<script>>,
             result |-> Err("Failed to execute performance monitoring script: "
                            \o o[1].error),
             cache |-> cache]
       ELSE [calls |-> <<script>>,
             result |-> Ok(performance_metrics),
             cache |-> store_in_cache(cache_key,
                                      to_string("performance", performance_metrics))]

\* [&str]::join
RECURSIVE join(_, _)
join(parts, sep) ==
    IF parts = << >> THEN ""
    ELSE IF Len(parts) = 1 THEN parts[1]
    ELSE parts[1] \o sep \o join(Tail(parts), sep)

\* str::replace: every occurrence of from, found from the left, none of
\* them overlapping another
RECURSIVE replace(_, _, _)
replace(s, from, to) ==
    LET hits == { i \in 1..(Len(s) - Len(from) + 1) :
                     SubSeq(s, i, i + Len(from) - 1) = from }
    IN IF hits = {} THEN s
       ELSE SubSeq(s, 1, FirstOf(hits) - 1) \o to
            \o replace(SubSeq(s, FirstOf(hits) + Len(from), Len(s)), from, to)

\* the loop of get_container_binaries from the k-th of common_binaries on,
\* the next command being the at-th of the request: one `which` for each
\* and, after a `which` that printed a path, the command asking for the
\* version, which may fail to launch
RECURSIVE BinariesFrom(_, _, _, _, _, _)
BinariesFrom(container_id, o, k, at, spawned, binaries) ==
    LET common_binaries == <<"docker", "systemctl", "nginx", "apache2", "mysql",
                             "postgres", "redis", "node", "python", "php",
                             "java", "git", "curl", "wget", "vim", "nano">>
        Exec(i, script) ==
            Run("ssh", <<"proxmox", "pct exec " \o ToString(container_id)
                                    \o " -- " \o script>>, o[i])
        binary == common_binaries[k]
        which == Exec(at, "which " \o binary \o " 2>/dev/null")
        path == trim(o[at].stdout)
        asked == Exec(at + 1, binary \o " --version 2>/dev/null || "
                              \o binary \o " -v 2>/dev/null || echo 'Unknown'")
        version_lines == IF o[at + 1].launched
                         THEN lines(o[at + 1].stdout) ELSE <<"Unknown">>
        info == [name |-> binary, path |-> path,
                 version |-> nth_or(version_lines, 0, "Unknown"),
                 exists |-> TRUE, executable |-> TRUE,
                 container_id |-> Some(container_id), vm_id |-> None]
    IN IF k > Len(common_binaries)
       THEN [calls |-> spawned, result |-> Ok(binaries), next |-> at]
       ELSE IF ~o[at].launched
       THEN [calls |-> Append(spawned, which),
             result |-> Err("Failed to check binary " \o binary \o ": "
                            \o o[at].error),
             next |-> at + 1]
       ELSE IF path # ""
       THEN BinariesFrom(container_id, o, k + 1, at + 2,
                         spawned \o <<which, asked>>, Append(binaries, info))
       ELSE BinariesFrom(container_id, o, k + 1, at + 1,
                         Append(spawned, which), binaries)

\* the whole handler: the cached record if it is fresh and reads back, else
\* get_container_name, get_container_os_info, get_container_processes,
\* get_container_binaries, get_container_services, get_container_configs and
\* get_container_status in turn, each followed by `?`, the record, and the
\* map after store_in_cache.  A command that exits non-zero has printed what
\* it has printed; only get_container_status looks at an exit status.
get_container_details(container_id, o) ==
    LET id == ToString(container_id)
        cache_key == "container_details_" \o id
        cached_data == get_from_cache(cache_key)
        read == from_str("detail", cached_data[2])
        Exec(k, script) ==
            Run("ssh", <<"proxmox", "pct exec " \o id \o " -- " \o script>>, o[k])
        Last(S) == CHOOSE i \in S : \A j \in S : j <= i
        \* get_container_name: the metadata is an empty map
        container_name == "CT-" \o id
        \* get_container_os_info: o[1], o[2], o[3]
        os_release == lines(o[1].stdout)
        value(line) == trim_matches(nth_or(split(line, "="), 1, "Unknown"), "\"")
        id_at == { i \in 1..Len(os_release) : starts_with(os_release[i], "ID=") }
        version_at == { i \in 1..Len(os_release) :
                           starts_with(os_release[i], "VERSION_ID=") }
        distribution == IF id_at = {} THEN "Unknown"
                        ELSE value(os_release[Last(id_at)])
        \* to_lowercase, which on the letters of these names is
        \* to_ascii_lowercase
        package_manager ==
            CASE to_ascii_lowercase(distribution) = "alpine" -> "apk"
              [] to_ascii_lowercase(distribution) \in {"ubuntu", "debian"} -> "apt"
              [] to_ascii_lowercase(distribution) \in {"centos", "rhel", "fedora"} -> "yum"
              [] OTHER -> "unknown"
        os_info == [distribution |-> distribution,
                    version |-> IF version_at = {} THEN "Unknown"
                                ELSE value(os_release[Last(version_at)]),
                    kernel |-> trim(o[2].stdout),
                    architecture |-> trim(o[3].stdout),
                    package_manager |-> package_manager]
        \* get_container_processes: o[4]
        ps_rows == SelectSeq(lines(o[4].stdout),
                             LAMBDA line : Len(split_whitespace(line)) >= 11)
        process(line) ==
            LET parts == split_whitespace(line)
            IN [pid |-> parts[2], name |-> parts[11], cpu |-> parts[3],
                memory |-> parts[4],
                command |-> join(SubSeq(parts, 11, Len(parts)), " ")]
        \* the commands before get_container_binaries, by position: the
        \* first that cannot be launched ends the handler with its error
        early == <<[call |-> Exec(1, "sh -c 'cat /etc/os-release 2>/dev/null || cat /etc/lsb-release 2>/dev/null || echo \"ID=unknown\"'"),
                    error |-> "Failed to get OS info: "],
                   [call |-> Exec(2, "uname -r"),
                    error |-> "Failed to get kernel info: "],
                   [call |-> Exec(3, "uname -m"),
                    error |-> "Failed to get architecture: "],
                   [call |-> Exec(4, "ps aux --no-headers"),
                    error |-> "Failed to get processes: "]>>
        early_failed == { k \in 1..4 : ~o[k].launched }
        Failing(spawned, message) ==
            [calls |-> spawned, result |-> Err(message), cache |-> cache]
        Storing(spawned, container_detail) ==
            [calls |-> spawned, result |-> Ok(container_detail),
             cache |-> store_in_cache(cache_key,
                                      to_string("detail", container_detail))]
        \* after get_container_binaries returned Ok and its commands and
        \* those before it were spawned: get_container_services with the
        \* s-th command, get_container_configs with the next eight, and
        \* get_container_status with the last one or three
        Rest(before, installed_binaries, s, status_info) ==
            LET units == Exec(s, "systemctl list-units --type=service --no-pager --no-legend 2>/dev/null || echo 'No systemd'")
                unit_rows ==
                    IF trim(o[s].stdout) = "No systemd" THEN << >>
                    ELSE SelectSeq(lines(o[s].stdout),
                                   LAMBDA line : Len(split_whitespace(line)) >= 4)
                unit(line) ==
                    LET parts == split_whitespace(line)
                    IN [name |-> replace(parts[1], ".service", ""),
                        status |-> parts[4], enabled |-> TRUE,
                        active |-> parts[3] = "active",
                        description |-> join(SubSeq(parts, 5, Len(parts)), " "),
                        container_id |-> Some(container_id), vm_id |-> None]
                common_configs ==
                    <<"/etc/nginx/nginx.conf", "/etc/apache2/apache2.conf",
                      "/etc/mysql/my.cnf", "/etc/redis/redis.conf",
                      "/etc/ssh/sshd_config", "/etc/hosts",
                      "/etc/resolv.conf", "/etc/fstab">>
                Ls(k) == Exec(s + k, "ls -la " \o common_configs[k]
                                     \o " 2>/dev/null")
                unlisted == { k \in 1..8 : ~o[s + k].launched }
                listed ==
                    SelectSeq([k \in 1..8 |-> k],
                        LAMBDA k : LET ls_output == trim(o[s + k].stdout)
                                   IN /\ ls_output # ""
                                      /\ ~contains(ls_output, "No such file")
                                      /\ Len(split_whitespace(ls_output)) >= 9)
                config(k) ==
                    LET parts == split_whitespace(trim(o[s + k].stdout))
                        pieces == split(common_configs[k], "/")
                    IN [name |-> pieces[Len(pieces)],
                        path |-> common_configs[k],
                        exists |-> TRUE, readable |-> TRUE,
                        writable |-> /\ Len(parts[1]) >= 3
                                     /\ SubSeq(parts[1], 3, 3) = "w",
                        size |-> unwrap_or(parse_u64(parts[5]), 0),
                        modified |-> parts[6] \o " " \o parts[7] \o " "
                                     \o parts[8],
                        container_id |-> Some(container_id), vm_id |-> None]
            IN IF ~o[s].launched
               THEN Failing(Append(before, units),
                            "Failed to get services: " \o o[s].error)
               ELSE IF unlisted # {}
               THEN Failing(Append(before, units)
                                \o [k \in 1..FirstOf(unlisted) |-> Ls(k)],
                            "Failed to check config "
                                \o common_configs[FirstOf(unlisted)] \o ": "
                                \o o[s + FirstOf(unlisted)].error)
               ELSE IF status_info.result.tag = "Err"
               THEN Failing(Append(before, units) \o [k \in 1..8 |-> Ls(k)]
                                \o status_info.calls,
                            status_info.result.msg)
               ELSE Storing(Append(before, units) \o [k \in 1..8 |-> Ls(k)]
                                \o status_info.calls,
                            [id |-> container_id, name |-> container_name,
                             status |-> status_info.result.val.status,
                             os_info |-> os_info,
                             running_processes |->
                                 [i \in 1..Len(ps_rows) |-> process(ps_rows[i])],
                             installed_binaries |-> installed_binaries,
                             systemd_services |->
                                 [i \in 1..Len(unit_rows) |-> unit(unit_rows[i])],
                             configs |->
                                 [i \in 1..Len(listed) |-> config(listed[i])]])
        \* get_container_binaries, from o[5] on, then the rest
        AfterBinaries(before, installed) ==
            IF installed.result.tag = "Err"
            THEN Failing(before \o installed.calls, installed.result.msg)
            ELSE Rest(before \o installed.calls, installed.result.val,
                      installed.next,
                      get_container_status(
                          container_id,
                          SubSeq(o, installed.next + 9, installed.next + 11)))
    IN IF /\ is_cache_valid_with_duration(cache_key, CONTAINER_CACHE_DURATION)
          /\ cached_data # None
          /\ read.tag = "Ok"
       THEN [calls |-> << >>, result |-> Ok(read.val), cache |-> cache]
       ELSE IF early_failed # {}
       THEN Failing([k \in 1..FirstOf(early_failed) |-> early[k].call],
                    early[FirstOf(early_failed)].error
                        \o o[FirstOf(early_failed)].error)
       ELSE AfterBinaries([k \in 1..4 |-> early[k].call],
                          BinariesFrom(container_id, o, 1, 5, << >>, << >>))

----------------------------------------------------------------------------
(* The cache on its own: stores and the lookups the handlers perform       *)

\* The keys the handlers use, with the freshness duration each handler
\* passes to is_cache_valid_with_duration
KeyDurations ==
    { <<"system_overview", CACHE_DURATION>>,
      <<"container_details_100", CONTAINER_CACHE_DURATION>>,
      <<"proxmox_host_info", HOST_CACHE_DURATION>>,
      <<"maintenance_overview", MAINTENANCE_CACHE_DURATION>>,
      <<"performance_metrics", PERFORMANCE_CACHE_SECONDS>> }

CacheKeys == { kd[1] : kd \in KeyDurations }

DurationOf(key) == (CHOOSE kd \in KeyDurations : kd[1] = key)[2]

\* The n-th store writes a payload of its own, so that a value read back names
\* the store that wrote it
Payload(n) == "v" \o ToString(n)

\* The instants at which the environment acts: the last tick before each
\* expiry and the expiry itself
Instants ==
    {0} \cup { kd[2] * TicksPerSecond - e : kd \in KeyDurations, e \in {0, 1} }

NoLookup == [pc |-> "idle"]

\* nobody holds the lock
Unlocked == [readers |-> {}, writers |-> {}]

NoOp == [name |-> "none"]
NoResult == [tag |-> "none"]
NoWorld == [kind |-> "none"]

cacheVars == <<now, cache, stores, nstores>>
opVars == <<op, calls, result>>
passVars == <<req, world, session>>
vars == <<now, cache, stores, nstores, lk, rw, op, calls, result, req, world, session>>

\* the process has just started: an empty cache, nothing invoked yet
CacheEmpty ==
    /\ now = 0
    /\ cache = << >>
    /\ stores = [k \in CacheKeys |-> None]
    /\ nstores = 0
    /\ lk = NoLookup
    /\ rw = Unlocked

OpsIdle == op = NoOp /\ calls = << >> /\ result = NoResult

\* the state after construction, no overview endpoint being polled
Init ==
    /\ CacheEmpty
    /\ OpsIdle
    /\ req = << >> /\ world = NoWorld /\ session = "none"


\* time passes; a lookup reads the clock once, in its validity check, so the
\* instants are taken between lookups
Advance ==
    /\ lk.pc = "idle"
    /\ \E t \in Instants : t > now /\ now' = t
    /\ UNCHANGED <<cache, stores, nstores, lk, rw, opVars, passVars>>

\* some handler calls store_in_cache(key, data)
Store(key) ==
    /\ lk.pc # "done"
    /\ nstores < MaxStores
    /\ cache' = store_in_cache(key, Payload(nstores + 1))
    /\ stores' = [stores EXCEPT ![key] = <<Payload(nstores + 1), now>>]
    /\ nstores' = nstores + 1
    /\ UNCHANGED <<now, lk, rw, opVars, passVars>>

\* a handler's lookup, first half: if is_cache_valid_with_duration(key, D)
LookupValid(key) ==
    /\ lk.pc = "idle"
    /\ lk' = [pc |-> "checked", key |-> key, at |-> now,
              valid |-> is_cache_valid_with_duration(key, DurationOf(key)),
              seen |-> stores[key]]
    /\ UNCHANGED <<cacheVars, rw, opVars, passVars>>

\* second half: if let Some(cached_data) = get_from_cache(key); not reached
\* when the validity check failed
LookupGet ==
    /\ lk.pc = "checked"
    /\ lk' = [lk EXCEPT !.pc = "done"] @@
             [got |-> IF lk.valid THEN get_from_cache(lk.key) ELSE None]
    /\ UNCHANGED <<cacheVars, rw, opVars, passVars>>

\* the handler goes on with what the lookup gave it
LookupReturn ==
    /\ lk.pc = "done"
    /\ lk' = NoLookup
    /\ UNCHANGED <<cacheVars, rw, opVars, passVars>>

NextCache ==
    \/ Advance
    \/ \E key \in CacheKeys : Store(key)
    \/ \E key \in CacheKeys : LookupValid(key)
    \/ LookupGet
    \/ LookupReturn

SpecCache == Init /\ [][NextCache]_vars

\* The freshness durations as the specification states them, in seconds
StatedDuration(key) ==
    CASE key = "system_overview" -> 300
      [] key = "container_details_100" -> 60
      [] key = "proxmox_host_info" -> 180
      [] key = "maintenance_overview" -> 120
      [] key = "performance_metrics" -> 30

\* C1: a value stored under key K at time t0 is what K's lookup (validity
\* check, then read) at time t0 + d returns if and only if d is less than K's
\* duration D; from d = D on the lookup yields no value.  (lk.seen is the last
\* store to K before the validity check, now the instant of that check; a store
\* that slips in before the read can only replace the value by a newer one.)
C1_Freshness ==
    lk.pc = "done" =>
        IF /\ lk.seen # None
           /\ now - lk.seen[2] < StatedDuration(lk.key) * TicksPerSecond
        THEN /\ lk.got = Some(stores[lk.key][1])
             /\ stores[lk.key] = lk.seen => lk.got = Some(lk.seen[1])
        ELSE lk.got = None

\* a lookup one tick before the expiry of a 30 s entry returns the stored value
C1_Witness ==
    /\ lk.pc = "done"
    /\ lk.key = "performance_metrics"
    /\ lk.seen # None
    /\ now - lk.seen[2] = 30 * TicksPerSecond - 1
    /\ lk.got = Some(lk.seen[1])

\* a lookup exactly at the expiry of a 300 s entry returns nothing
C1_WitnessExpired ==
    /\ lk.pc = "done"
    /\ lk.key = "system_overview"
    /\ lk.seen # None
    /\ now - lk.seen[2] = 300 * TicksPerSecond
    /\ lk.got = None

\* C17: the cache provides invalidate(key): whatever the cache holds under a
\* key K, a step of the cache can remove the entry of K and leave the entry
\* of every other key as it is, after which a lookup of K finds no value
\* until the next store to K
C17_InvalidateProvided ==
    \A K \in DOMAIN cache :
        ENABLED (/\ NextCache
                 /\ cache' = [k \in DOMAIN cache \ {K} |-> cache[k]])

\* no step takes an entry out of the cache: a key once stored stays
C17_EntriesStay == [][DOMAIN cache \subseteq DOMAIN cache']_vars


\* the key of the store this step performs, if it performs one: each store
\* writes a payload of its own
StoredKey(K) ==
    /\ nstores' = nstores + 1
    /\ K \in DOMAIN cache'
    /\ cache'[K][1] = Payload(nstores')

\* C23: store_in_cache(K, v) sets K's entry to (v, time of the store) whether
\* or not K was present before, and leaves the value and the timestamp of
\* every other key unchanged
C23_StoreFrame ==
    [][nstores' # nstores =>
          \E K \in CacheKeys :
              /\ StoredKey(K)
              /\ cache'[K] = <<Payload(nstores + 1), now>>
              /\ DOMAIN cache' = DOMAIN cache \cup {K}
              /\ \A k \in DOMAIN cache \ {K} : cache'[k] = cache[k]]_vars

\* a store has replaced an entry that was present, at a later time, while
\* nothing else was stored
C23_Witness ==
    /\ nstores = 2
    /\ \E K \in CacheKeys :
          /\ DOMAIN cache = {K}
          /\ cache[K] = <<Payload(2), now>>
          /\ now > 0

\* a store of a second key has left the first entry as it was
C23_WitnessOtherKey ==
    /\ nstores = 2
    /\ \E K \in CacheKeys, J \in CacheKeys :
          /\ DOMAIN cache = {K, J}
          /\ cache[K] = <<Payload(1), 0>>
          /\ cache[J] = <<Payload(2), now>>
          /\ now > 0

\* C24: no operation removes a cache entry: the set of keys the cache holds
\* never shrinks, and an entry, expired or not, stays as it is until a store
\* to the same key replaces it
C24_NeverRemoved ==
    [][\A k \in DOMAIN cache :
          /\ k \in DOMAIN cache'
          /\ cache'[k] # cache[k] => StoredKey(k)]_vars

\* an entry found expired by a lookup is still in the cache after the lookup
C24_Witness ==
    /\ lk.pc = "done"
    /\ lk.seen # None
    /\ ~lk.valid
    /\ lk.got = None
    /\ lk.key \in DOMAIN cache
    /\ cache[lk.key] = lk.seen
    /\ ~is_cache_valid_with_duration(lk.key, DurationOf(lk.key))

\* an expired entry has been replaced by a store to its key
C24_WitnessReplaced ==
    /\ nstores = 2
    /\ \E K \in CacheKeys :
          /\ DOMAIN cache = {K}
          /\ cache[K] = <<Payload(2), now>>
          /\ num_seconds(now) >= DurationOf(K)

----------------------------------------------------------------------------
(* The commands on one target, invoked one at a time by the frontend.  The *)
(* remote side answers each spawned process with any outcome of the sets   *)
(* below.                                                                  *)

MaxClock == 1
MaxLines == 4

\* a process that could not be launched, or exited non-zero having printed
\* one of outs
Failed(outs) ==
    { LaunchFailure("No such file or directory (os error 2)") }
    \cup { Exited(FALSE, out, err) :
               out \in outs, err \in {"", "Connection refused"} }

\* a process that exited with status zero having printed one of outs
Succeeded(outs) == { Exited(TRUE, out, "") : out \in outs }

Answers(outs) == Failed({""}) \cup Succeeded(outs)

SeqFill(n, x) == [i \in 1..n |-> x]

OpContainerIds == {100, 214, 999}
OpVmIds == {500, 611, 612, 900}

\* container_id, vm_id as the maintenance commands take them
Targets ==
    { <<None, None>>, <<Some(214), None>>, <<None, Some(500)>>,
      <<None, Some(612)>>, <<Some(100), Some(611)>> }

StatusTexts ==
    {"status: running\n", "status: stopped\n", "status: unknown\n", "",
     "status: Running\n", "status: stopped (was running)\n"}

OsTexts ==
    {"PRETTY_NAME=\"Debian GNU/Linux 12\"\nNAME=\"Debian GNU/Linux\"\n",
     "NAME=\n", "ID=debian\n", "NAME=\"Unknown\"\n"}

ConfigTexts ==
    {"arch: amd64\nmemory: 512\n", "memory: nan\n",
     "memory: lots\nmemory: 2048.5\n", "cores: 2\n"}

ConfigPaths == {"/etc/nginx/nginx.conf"}

\* what the remote side would answer to each command of one check_binary:
\* `which`, the find of each directory of search_paths, --version, each of
\* alt_commands, test -x. An answer the handler cannot come to ask for is
\* fixed to one that would have matched.
BinaryOracles ==
    LET refused == LaunchFailure("No such file or directory (os error 2)")
        x50 == "nginx/1.24nginx/1.24nginx/1.24nginx/1.24nginx/1.24"
        x200 == x50 \o x50 \o x50 \o x50
        e50 == "éééééééééééééééééééééééééééééééééééééééééééééééééé"
        finds(hits, miss) ==
            [i \in 1..Len(search_paths) |->
                IF i \in hits
                THEN Exited(TRUE, search_paths[i] \o "/nginx\n", "") ELSE miss]
        first == <<Exited(TRUE, "nginx 1.24\n", ""),
                   Exited(TRUE, "nginx V\n", ""), refused, refused>>
        cascades ==
            { first,
              <<refused, Exited(FALSE, "nginx 1.24\n", ""),
                Exited(TRUE, "", ""), Exited(TRUE, "usage: nginx\nmore\n", "")>>,
              <<Exited(TRUE, "\nnginx 1.24\n", ""), Exited(TRUE, x200 \o "\n", ""),
                Exited(TRUE, SubSeq(x200, 1, 199) \o "\n", ""),
                Exited(TRUE, "nginx V\n", "")>>,
              <<refused, Exited(FALSE, "", "unknown option"),
                Exited(TRUE, "", ""), Exited(TRUE, x200, "")>>,
              <<Exited(TRUE, e50 \o e50 \o "\n", ""),
                Exited(TRUE, "nginx 1.24\r\n", ""), refused, refused>> }
    IN { b \in [which : {refused, Exited(FALSE, "", ""),
                         Exited(TRUE, "/usr/bin/nginx\n", "")},
                finds : { finds(hits, miss) :
                            hits \in {{}, {1}, {2, 5}, {14}, {3, 14}},
                            miss \in {refused, Exited(FALSE, "", ""),
                                      Exited(FALSE, "/tmp/nginx\n", ""),
                                      Exited(TRUE, "  \n", "")} },
                version : {refused, Exited(FALSE, "", ""), Exited(TRUE, "", ""),
                           Exited(TRUE, "nginx version: nginx/1.24.0\nbuilt by gcc\n", "")},
                alts : cascades,
                test : {refused, Exited(FALSE, "", ""), Exited(TRUE, "", "")}] :
           LET probing == b.which.launched /\ ~b.which.success
               found == ~b.which.launched \/ b.which.success
                        \/ \E i \in 1..Len(search_paths) :
                               b.finds[i].success /\ trim(b.finds[i].stdout) # ""
           IN /\ ~probing => b.finds = finds({1}, refused)
              /\ ~found => b.version = refused /\ b.test = refused
              /\ ~(b.version.launched /\ ~b.version.success) => b.alts = first
              /\ ~b.which.launched => b.version = refused /\ b.test = refused }

\* the tee child of write_config
TeeChildren ==
    { Child(out, "", "") : out \in Answers({"key=value\n"}) }
    \cup { Child(Exited(FALSE, "", "Connection refused"), "Broken pipe (os error 32)", ""),
           Child(Exited(TRUE, "", ""), "", "No child processes (os error 10)") }

\* the frontend invokes a command (one at a time: op = NoOp) and the handler
\* runs to its return
Invoke(name, args, r) ==
    /\ op' = [name |-> name, args |-> args]
    /\ \E returned \in {r} :
          /\ calls' = returned.calls
          /\ result' = returned.result
    /\ UNCHANGED <<cacheVars, lk, rw, passVars>>

\* the response is delivered
Respond ==
    /\ op # NoOp
    /\ op' = NoOp
    /\ calls' = << >>
    /\ result' = NoResult
    /\ UNCHANGED <<cacheVars, lk, rw, passVars>>

Tick ==
    /\ op = NoOp
    /\ now < MaxClock
    /\ now' = now + 1
    /\ UNCHANGED <<cache, stores, nstores, lk, rw, opVars, passVars>>

Do_get_ssh_target ==
    /\ op = NoOp
    /\ \E c \in {None} \cup { Some(id) : id \in OpContainerIds },
          v \in {None} \cup { Some(id) : id \in OpVmIds } :
              Invoke("get_ssh_target", [container_id |-> c, vm_id |-> v],
                  [calls |-> << >>, result |-> Ok(get_ssh_target(c, v))])

Do_get_container_status ==
    /\ op = NoOp
    /\ \E id \in OpContainerIds, o1 \in Answers(StatusTexts),
          o2 \in Answers(OsTexts), o3 \in Answers(ConfigTexts) :
              Invoke("get_container_status", [container_id |-> id],
                  get_container_status(id, <<o1, o2, o3>>))

Do_get_vm_status ==
    /\ op = NoOp
    /\ \E id \in OpVmIds, o1 \in Answers(StatusTexts), o2 \in Answers({"VM status: running\nVM uptime: 3 days\n",
                          "VM status: running\n"}) :
              Invoke("get_vm_status", [vm_id |-> id], get_vm_status(id, <<o1, o2>>))

\* one turn of get_system_overview's loop over existing_container_ids, from
\* an empty list of containers: the status fetch, the catalogue look-up, the
\* push
Do_overview_container ==
    /\ op = NoOp
    /\ \E container_id \in {0, 99, 100, 107, 108, 199, 200, 209, 210, 213, 214,
                            215, 229, 230, 238, 239, 240, 250, 251, 259, 260,
                            263, 269, 270, 273, 279, 280, 999},
          o \in {<<LaunchFailure("No such file or directory (os error 2)")>>,
                 <<Exited(FALSE, "", "Configuration file does not exist")>>,
                 <<Exited(TRUE, "status: stopped\n", "")>>,
                 <<Exited(TRUE, "status: running\n", ""),
                   Exited(TRUE, "NAME=\"Debian GNU/Linux\"\n", ""),
                   Exited(TRUE, "arch: amd64\nmemory: 512\n", "")>>} :
          LET fetched == get_container_status(container_id, o)
          IN Invoke("get_system_overview/container",
                 [container_id |-> container_id],
                 [calls |-> fetched.calls,
                  result |-> Ok(Pushed(<< >>, fetched.result,
                                       OverlayContainer(fetched.result.val)))])

\* get_existing_containers, get_existing_vms: listing is the output of
\* pct list / qm list, line by line; any line may come first
Do_get_existing_ids ==
    /\ op = NoOp
    /\ \E tool \in {"pct", "qm"}, n \in 0..MaxLines :
          \E listing \in [1..n ->
                             {"100 running\n", "214 stopped\n", "abc bad\n",
                              "   7\tup\r\n", "4294967296 big\n", "\n"}] :
              LET line(k) == IF k <= n THEN listing[k] ELSE ""
                  text == line(1) \o line(2) \o line(3) \o line(4) \o line(5)
                          \o line(6)
              IN \E out \in IF n = 0 THEN Answers({text}) ELSE Succeeded({text}) :
                    Invoke(IF tool = "pct" THEN "get_existing_containers"
                           ELSE "get_existing_vms",
                           [listing |-> listing],
                           get_existing_ids(tool, <<out>>))

Do_start_container ==
    /\ op = NoOp
    /\ \E id \in OpContainerIds, o1 \in Answers({""}) :
              Invoke("start_container", [container_id |-> id],
                     HostControl("pct", "start", id,
                         "Container " \o ToString(id) \o " started successfully",
                         "Failed to start container " \o ToString(id) \o ": ", <<o1>>))

Do_stop_container ==
    /\ op = NoOp
    /\ \E id \in OpContainerIds, o1 \in Answers({""}) :
              Invoke("stop_container", [container_id |-> id],
                     HostControl("pct", "stop", id,
                         "Container " \o ToString(id) \o " stopped successfully",
                         "Failed to stop container " \o ToString(id) \o ": ", <<o1>>))

Do_restart_container ==
    /\ op = NoOp
    /\ \E id \in OpContainerIds, o1 \in Answers({""}) :
              Invoke("restart_container", [container_id |-> id],
                     HostControl("pct", "restart", id,
                         "Container " \o ToString(id) \o " restarted successfully",
                         "Failed to restart container " \o ToString(id) \o ": ", <<o1>>))

Do_start_vm ==
    /\ op = NoOp
    /\ \E id \in OpVmIds, o1 \in Answers({""}) :
              Invoke("start_vm", [vm_id |-> id],
                     HostControl("qm", "start", id,
                         "VM " \o ToString(id) \o " started successfully",
                         "Failed to start VM " \o ToString(id) \o ": ", <<o1>>))

Do_stop_vm ==
    /\ op = NoOp
    /\ \E id \in OpVmIds, o1 \in Answers({""}) :
              Invoke("stop_vm", [vm_id |-> id],
                     HostControl("qm", "stop", id,
                         "VM " \o ToString(id) \o " stopped successfully",
                         "Failed to stop VM " \o ToString(id) \o ": ", <<o1>>))

Do_restart_vm ==
    /\ op = NoOp
    /\ \E id \in OpVmIds, o1 \in Answers({""}) :
              Invoke("restart_vm", [vm_id |-> id],
                     HostControl("qm", "restart", id,
                         "VM " \o ToString(id) \o " restarted successfully",
                         "Failed to restart VM " \o ToString(id) \o ": ", <<o1>>))

Do_shutdown_vm ==
    /\ op = NoOp
    /\ \E id \in OpVmIds, o1 \in Answers({""}) :
              Invoke("shutdown_vm", [vm_id |-> id],
                     HostControl("qm", "shutdown", id,
                         "VM " \o ToString(id) \o " shutdown initiated successfully",
                         "Failed to shutdown VM " \o ToString(id) \o ": ", <<o1>>))

Do_reset_vm ==
    /\ op = NoOp
    /\ \E id \in OpVmIds, o1 \in Answers({""}) :
              Invoke("reset_vm", [vm_id |-> id],
                     HostControl("qm", "reset", id,
                         "VM " \o ToString(id) \o " reset successfully",
                         "Failed to reset VM " \o ToString(id) \o ": ", <<o1>>))

Do_control_service ==
    /\ op = NoOp
    /\ \E action \in {"start", "restart"}, t \in Targets, o1 \in Answers({""}) :
              Invoke("control_service",
                  [service_name |-> "nginx", action |-> action,
                   container_id |-> t[1], vm_id |-> t[2]],
                  control_service("nginx", action, t[1], t[2], <<o1>>))

Do_check_service_status ==
    /\ op = NoOp
    /\ \E t \in Targets,
          o1 \in Answers({"nginx.service - web server\n   Active: active (running)\n",
                          "nginx.service - web server\n   Active: inactive (dead)\n"}),
          o2 \in Answers({"enabled\n", "disabled\n"}) :
              Invoke("check_service_status",
                  [service_name |-> "nginx", container_id |-> t[1], vm_id |-> t[2]],
                  check_service_status("nginx", t[1], t[2], <<o1, o2>>))

\* the handler's processes take the remote side's answers in the order it
\* spawns them: it leaves each loop at the process its own loop ends with
Do_check_binary ==
    /\ op = NoOp
    /\ \E t \in Targets, b \in BinaryOracles :
          LET probed == IF b.which.launched /\ ~b.which.success
                        THEN Len(SearchFrom("", "nginx", b.finds, 1, 1).calls)
                        ELSE 0
              tried == IF b.version.launched /\ ~b.version.success
                       THEN Len(AltVersionFrom("", "", b.alts, 1, 1).calls)
                       ELSE 0
              o == <<b.which>> \o SubSeq(b.finds, 1, probed) \o <<b.version>>
                   \o SubSeq(b.alts, 1, tried) \o <<b.test>>
          IN Invoke("check_binary",
                 [binary_name |-> "nginx", container_id |-> t[1],
                  vm_id |-> t[2], remote |-> b],
                 check_binary("nginx", t[1], t[2], o))

Do_check_config ==
    /\ op = NoOp
    /\ \E path \in ConfigPaths, t \in Targets, o1 \in Answers({""}),
          o2 \in Answers({""}), o3 \in Answers({""}),
          o4 \in Answers({"120 1700000000\n", "", "many 1x\n"}) :
              Invoke("check_config",
                  [config_path |-> path, container_id |-> t[1], vm_id |-> t[2]],
                  check_config(path, t[1], t[2], <<o1, o2, o3, o4>>))

Do_read_config ==
    /\ op = NoOp
    /\ \E path \in ConfigPaths, t \in Targets,
          o1 \in Failed({"", "key="}) \cup Succeeded({"key=value\n"}) :
              Invoke("read_config",
                  [config_path |-> path, container_id |-> t[1], vm_id |-> t[2]],
                  read_config(path, t[1], t[2], <<o1>>))

Do_write_config ==
    /\ op = NoOp
    /\ \E path \in ConfigPaths, t \in Targets, o1 \in Answers({""}),
          o2 \in TeeChildren :
              Invoke("write_config",
                  [config_path |-> path, content |-> "key=value\n",
                   container_id |-> t[1], vm_id |-> t[2]],
                  write_config(path, "key=value\n", t[1], t[2], <<o1, o2>>))

Do_read_container_config ==
    /\ op = NoOp
    /\ \E id \in OpContainerIds, path \in ConfigPaths,
          o1 \in Failed({"", "key="}) \cup Succeeded({"key=value\n"}) :
              Invoke("read_container_config",
                  [container_id |-> id, config_path |-> path],
                  read_container_config(id, path, <<o1>>))

Do_write_container_config ==
    /\ op = NoOp
    /\ \E id \in OpContainerIds, path \in ConfigPaths, o1 \in Answers({""}),
          o2 \in Answers({"key=value\n"}) :
              Invoke("write_container_config",
                  [container_id |-> id, config_path |-> path,
                   content |-> "key=value\n"],
                  write_container_config(id, path, "key=value\n", <<o1, o2>>))

\* what the hosts answer to fix_all_services: three of the services are
\* active, stopped, out of reach or not to be asked at all, and the restart
\* of one that is restarted ends well, ends badly or cannot be launched
Do_fix_all_services ==
    /\ op = NoOp
    /\ \E state \in [{"nginx", "sonarr", "alexa-service"} ->
                        {"active", "inactive", "unreachable", "unlaunchable"}],
          ends \in [{"nginx", "sonarr", "alexa-service"} ->
                       {"done", "failed", "unlaunchable"}] :
          /\ \A name \in DOMAIN state :
                state[name] \in {"active", "unlaunchable"} => ends[name] = "done"
          /\ LET names == {"nginx", "docker", "ssh", "sonarr", "radarr",
                           "prowlarr", "qbittorrent", "plex", "jellyfin",
                           "home-assistant", "alexa-service"}
                 StateOf(name) == IF name \in DOMAIN state THEN state[name]
                                  ELSE "active"
                 status == [name \in names |->
                     CASE StateOf(name) = "active" ->
                              <<Exited(TRUE, "nginx.service\n   Loaded: loaded\n   Active: active (running)\n", ""),
                                Exited(TRUE, "enabled\n", "")>>
                       [] StateOf(name) = "inactive" ->
                              <<Exited(FALSE, "sonarr.service\n   Loaded: loaded\n   Active: inactive (dead)\n", ""),
                                Exited(FALSE, "disabled\n", "")>>
                       [] StateOf(name) = "unreachable" ->
                              <<Exited(FALSE, "", "Connection refused"),
                                Exited(FALSE, "", "Connection refused")>>
                       [] OTHER ->
                              <<LaunchFailure("No such file or directory (os error 2)"),
                                LaunchFailure("No such file or directory (os error 2)")>>]
                 restart == [name \in names |->
                     IF name \notin DOMAIN ends \/ ends[name] = "done"
                     THEN Exited(TRUE, "", "")
                     ELSE IF ends[name] = "failed"
                     THEN Exited(FALSE, "", "Job for " \o name \o ".service failed")
                     ELSE LaunchFailure("Resource temporarily unavailable (os error 11)")]
             IN Invoke("fix_all_services", [state |-> state, ends |-> ends],
                       fix_all_services([status |-> status, restart |-> restart]))

NextOps ==
    \/ Tick
    \/ Respond
    \/ Do_get_ssh_target
    \/ Do_get_container_status
    \/ Do_get_vm_status
    \/ Do_get_existing_ids
    \/ Do_overview_container
    \/ Do_start_container
    \/ Do_stop_container
    \/ Do_restart_container
    \/ Do_start_vm
    \/ Do_stop_vm
    \/ Do_restart_vm
    \/ Do_shutdown_vm
    \/ Do_reset_vm
    \/ Do_control_service
    \/ Do_check_service_status
    \/ Do_fix_all_services
    \/ Do_check_binary
    \/ Do_check_config
    \/ Do_read_config
    \/ Do_write_config
    \/ Do_read_container_config
    \/ Do_write_container_config

SpecOps == Init /\ [][NextOps]_vars

----------------------------------------------------------------------------
(* The host's record, asked for again and again while time passes          *)

\* time passes between two requests, up to the last second in which the
\* host's record is fresh and to the first in which it is stale
AdvanceHost ==
    /\ op = NoOp
    /\ \E t \in {HOST_CACHE_DURATION * TicksPerSecond - 1,
                 HOST_CACHE_DURATION * TicksPerSecond} :
          /\ t > now
          /\ now' = t
    /\ UNCHANGED <<cache, stores, nstores, lk, rw, opVars, passVars>>

\* failing holds the commands of the handler, by position, that fail: none
\* of them can be launched, or all of them exit non-zero; when none fails
\* the outputs may be odd, without the usual shape
Do_get_proxmox_host_info ==
    /\ op = NoOp
    /\ \E failing \in SUBSET (1..6), refused \in BOOLEAN, odd \in BOOLEAN :
          /\ odd => (failing = {} /\ refused)
          /\ LET usual == <<"pve\n",
                            "pve-manager/8.1.4/ec5affc9e41f1d79 (running kernel: 6.5.11-8-pve)\n",
                            "up 3 days, 4 hours\n",
                            "16\n",
                            "      total   used   free\nMem:   62Gi   10Gi   50Gi\nSwap:   8Gi   0B   8Gi\n",
                            "Name  Type  Status  Total  Used  Available  %\nlocal  dir  active  1000  250  750  25.00%\nlocal-lvm  lvmthin  inactive  0  0  0  0.00%\n">>
                 unusual == <<"", "", "\n", "many\n", "      total   used   free\n",
                              "Name  Type  Status  Total  Used  Available  %\nlocal  dir  active\nnas  nfs  active  1000  nan  0  -\n">>
                 o == [i \in 1..6 |->
                          IF i \notin failing
                          THEN Exited(TRUE, IF odd THEN unusual[i] ELSE usual[i], "")
                          ELSE IF refused
                          THEN LaunchFailure("No such file or directory (os error 2)")
                          ELSE Exited(FALSE, "", "Connection refused")]
                 returned == get_proxmox_host_info(o)
             IN /\ op' = [name |-> "get_proxmox_host_info",
                          args |-> << >>]
                /\ calls' = returned.calls
                /\ result' = returned.result
                /\ cache' = returned.cache
                /\ UNCHANGED <<now, stores, nstores, lk, rw, passVars>>

NextHost ==
    \/ AdvanceHost
    \/ Respond
    \/ Do_get_proxmox_host_info

SpecHost == Init /\ [][NextHost]_vars

\* str::ends_with
ends_with(s, suffix) ==
    /\ Len(s) >= Len(suffix)
    /\ SubSeq(s, Len(s) - Len(suffix) + 1, Len(s)) = suffix

\* a spawned process that could not be launched or exited non-zero
CallFailed(call) == ~call.out.launched \/ ~call.out.success

SingleTargetOps ==
    {"get_container_status", "get_vm_status", "read_config", "write_config",
     "read_container_config", "write_container_config"}

\* the primary remote command of a single-target operation: the status
\* query, the cat, and for the two writes the tee that follows the backup
PrimaryCall ==
    IF op.name \in {"write_config", "write_container_config"}
    THEN calls[2] ELSE calls[1]

HasPrimaryCall ==
    IF op.name \in {"write_config", "write_container_config"}
    THEN Len(calls) >= 2 ELSE Len(calls) >= 1

\* C5: every single-target operation (get_container_status, get_vm_status,
\* read_config, write_config, read_container_config, write_container_config)
\* returns Err with a non-empty text whenever its primary remote command
\* cannot be launched or exits non-zero; none returns Ok for a failed command.
C5_SingleTargetErr ==
    (op.name \in SingleTargetOps /\ HasPrimaryCall /\ CallFailed(PrimaryCall))
        => (result.tag = "Err" /\ result.msg # "")

\* the four that check the exit status of their primary command do return Err
C5_CheckedFour ==
    (/\ op.name \in {"get_container_status", "get_vm_status", "read_config",
                     "write_config"}
     /\ HasPrimaryCall /\ CallFailed(PrimaryCall))
        => (result.tag = "Err" /\ result.msg # "")

ControlOps ==
    {"start_container", "stop_container", "restart_container", "start_vm",
     "stop_vm", "restart_vm", "shutdown_vm", "reset_vm", "control_service"}

\* C6: each control operation issues its remote command exactly once, returns
\* Ok if and only if that command exits with status zero, and otherwise
\* returns Err whose text ends with the remote stderr, or with the launch
\* error when the command could not be started.
C6_ControlOnce ==
    op.name \in ControlOps =>
        /\ Len(calls) = 1
        /\ calls[1].prog = "ssh"
        /\ result.tag \in {"Ok", "Err"}
        /\ result.tag = "Ok" <=> (calls[1].out.launched /\ calls[1].out.success)
        /\ result.tag = "Err" =>
               ends_with(result.msg,
                         IF calls[1].out.launched
                         THEN calls[1].out.stderr ELSE calls[1].out.error)

\* a service restart refused by the remote side: Err carrying its stderr
C6_Witness ==
    /\ op.name = "control_service"
    /\ Len(calls) = 1
    /\ calls[1].out.launched /\ ~calls[1].out.success
    /\ calls[1].out.stderr = "Connection refused"
    /\ result.tag = "Err"
    /\ ends_with(result.msg, "Connection refused")

\* a VM shutdown that exits zero: Ok after the one command
C6_WitnessOk ==
    /\ op.name = "shutdown_vm"
    /\ Len(calls) = 1
    /\ calls[1].out.success
    /\ result.tag = "Ok"

\* the destination the specification states for each pair of arguments
StatedTarget(container_id, vm_id) ==
    IF container_id # None
    THEN "proxmox lxc exec " \o ToString(container_id[2]) \o " --"
    ELSE IF vm_id = Some(500) THEN "homeassistant"
    ELSE IF vm_id = Some(611) THEN "alexa"
    ELSE IF vm_id = Some(900) THEN "ai-system"
    ELSE "proxmox"

\* C9: get_ssh_target is a function of its two arguments alone, whatever the
\* state it is called in: with a container id c it returns
\* "proxmox lxc exec c --", also when a VM id is given as well; with only a VM
\* id it returns "homeassistant" for 500, "alexa" for 611, "ai-system" for
\* 900 and "proxmox" for any other; with neither it returns "proxmox".
C9_SshTarget ==
    op.name = "get_ssh_target" =>
        result = Ok(StatedTarget(op.args.container_id, op.args.vm_id))

\* both ids given: the container wins
C9_Witness ==
    /\ op.name = "get_ssh_target"
    /\ op.args.container_id = Some(100)
    /\ op.args.vm_id = Some(611)
    /\ result = Ok("proxmox lxc exec 100 --")
    /\ now > 0

TargetedOps ==
    {"check_service_status", "control_service", "check_binary", "check_config",
     "read_config", "write_config"}

\* C10: for a container target, every process spawned by check_service_status,
\* control_service, check_binary, check_config, read_config and write_config
\* connects to the host "proxmox" and runs there the container-entry prefix
\* (lxc exec <id> --) followed by the command.
C10_ContainerPrefix ==
    (op.name \in TargetedOps /\ op.args.container_id # None) =>
        \A i \in 1..Len(calls) :
            /\ calls[i].prog = "ssh"
            /\ SshDestination(calls[i].args) = "proxmox"
            /\ Len(SshRemoteCommand(calls[i].args)) > 4
            /\ SubSeq(SshRemoteCommand(calls[i].args), 1, 4)
                   = <<"lxc", "exec", ToString(op.args.container_id[2]), "--">>

\* the text holds the word somewhere, letter for letter
HasWord(text, word) ==
    \E i \in 1..Len(text) : \E j \in i..Len(text) : SubSeq(text, i, j) = word

StatedStatus(text) ==
    IF HasWord(text, "running") THEN "Running"
    ELSE IF HasWord(text, "stopped") THEN "Stopped"
    ELSE "Unknown"

\* C11: the status get_container_status and get_vm_status report is Running
\* if the output of the status command contains "running", otherwise Stopped
\* if it contains "stopped", otherwise Unknown; the match is case-sensitive
C11_StatusFromText ==
    (op.name \in {"get_container_status", "get_vm_status"} /\ result.tag = "Ok")
        => result.val.status = StatedStatus(calls[1].out.stdout)

\* an output with both words gives Running
C11_Witness ==
    /\ op.name = "get_vm_status"
    /\ result.tag = "Ok"
    /\ HasWord(calls[1].out.stdout, "running")
    /\ HasWord(calls[1].out.stdout, "stopped")
    /\ result.val.status = "Running"

\* "Running" with a capital is not a match
C11_WitnessCase ==
    /\ op.name = "get_container_status"
    /\ result.tag = "Ok"
    /\ calls[1].out.stdout = "status: Running\n"
    /\ result.val.status = "Unknown"

\* the unsigned integer a line of a listing starts with, if any
StatedId(line) ==
    CASE line = "100 running\n" -> Some(100)
      [] line = "214 stopped\n" -> Some(214)
      [] line = "   7\tup\r\n" -> Some(7)
      [] OTHER -> None

RECURSIVE StatedIds(_)
StatedIds(listing) ==
    IF listing = << >> THEN << >>
    ELSE (IF StatedId(Head(listing)) = None THEN << >>
          ELSE <<StatedId(Head(listing))[2]>>) \o StatedIds(Tail(listing))

\* C12: the ids get_existing_containers and get_existing_vms return are the
\* first tokens, where they are unsigned integers, of the lines after the
\* first, in the order of the lines; a line without one is dropped
C12_ParsedListing ==
    (op.name \in {"get_existing_containers", "get_existing_vms"}
        /\ result.tag = "Ok")
        => result.val = (IF op.args.listing = << >> THEN << >>
                         ELSE StatedIds(Tail(op.args.listing)))

\* a first line, 214, a row that is no id, 100: the ids are 214, 100
C12_Witness ==
    /\ op.name = "get_existing_containers"
    /\ op.args.listing = <<"abc bad\n", "214 stopped\n", "abc bad\n",
                           "100 running\n">>
    /\ result = Ok(<<214, 100>>)

\* the first line is skipped even when it starts with an id
C12_WitnessSkipped ==
    /\ op.name = "get_existing_vms"
    /\ op.args.listing = <<"100 running\n", "4294967296 big\n", "\n",
                           "   7\tup\r\n">>
    /\ result = Ok(<<7>>)

----------------------------------------------------------------------------
\* check_binary returned the report of a binary it found
FoundBinary ==
    op.name = "check_binary" /\ result.tag = "Ok" /\ result.val.exists

\* an attempt fails: it cannot be launched, or it exits non-zero
AttemptFails(answer) == ~answer.launched \/ ~answer.success

\* the line of an output that is one non-empty line, with or without its
\* final newline
OneLineOf(text) ==
    LET body == IF Len(text) > 0 /\ SubSeq(text, Len(text), Len(text)) = "\n"
                THEN SubSeq(text, 1, Len(text) - 1) ELSE text
    IN IF body # "" /\ \A i \in 1..Len(body) : SubSeq(body, i, i) # "\n"
       THEN Some(body) ELSE None

\* the answer to -v is a success with a single line shorter than 200
\* characters
DashVSucceeds(b) ==
    /\ b.alts[1].launched /\ b.alts[1].success
    /\ OneLineOf(b.alts[1].stdout) # None
    /\ Len(OneLineOf(b.alts[1].stdout)[2]) < 200

\* C13: for a binary that was found, when --version fails (it cannot be
\* launched, or it exits non-zero) and -v succeeds with a single-line output
\* shorter than 200 characters, the reported version is that output; when
\* every attempt fails, the reported version is "Unknown"
C13_VersionFallback ==
    FoundBinary =>
        LET b == op.args.remote
        IN /\ (AttemptFails(b.version) /\ DashVSucceeds(b))
                  => result.val.version = OneLineOf(b.alts[1].stdout)[2]
           /\ (AttemptFails(b.version)
               /\ \A i \in 1..Len(alt_commands) : AttemptFails(b.alts[i]))
                  => result.val.version = "Unknown"

\* the same for a --version that ran and exited non-zero and a line of
\* ASCII characters
C13_AfterNonZeroExit ==
    FoundBinary =>
        LET b == op.args.remote
        IN (/\ b.version.launched /\ ~b.version.success
            /\ DashVSucceeds(b)
            /\ len(b.alts[1].stdout) = Len(b.alts[1].stdout))
               => result.val.version = OneLineOf(b.alts[1].stdout)[2]

\* --version cannot be launched, -v would print one short line: the report
\* says "Unknown" and -v was never tried
C13_VersionNotLaunched ==
    /\ FoundBinary
    /\ ~op.args.remote.version.launched
    /\ DashVSucceeds(op.args.remote)
    /\ result.val.version = "Unknown"
    /\ \A i \in 1..Len(calls) : calls[i].args[Len(calls[i].args)] # "-v"

\* the category the numeric ranges give an id
StatedCategory(id) ==
    IF id >= 100 /\ id <= 199 THEN "Core Infrastructure"
    ELSE IF id >= 210 /\ id <= 229 THEN "Essential Media Services"
    ELSE IF id >= 230 /\ id <= 239 THEN "Media Servers"
    ELSE IF id >= 240 /\ id <= 250 THEN "Enhancement Services"
    ELSE IF id >= 260 /\ id <= 269 THEN "Monitoring & Analytics"
    ELSE IF id >= 270 /\ id <= 279 THEN "Management & Utilities"
    ELSE "Other"

\* the record get_system_overview pushed for a container, if it pushed one
OverviewContainer ==
    IF op.name = "get_system_overview/container" /\ result.val # << >>
    THEN Some(result.val[1]) ELSE None

\* C14: in get_system_overview a container whose id the catalogue holds gets
\* exactly the catalogue's name, description and category; one it does not
\* hold gets the name "Container <id>", the description "Unknown container"
\* and the category of the numeric range its id lies in, "Other" outside them
C14_CatalogueOverlay ==
    OverviewContainer # None =>
        LET c == OverviewContainer[2]
            held == {i \in 1..Len(container_metadata) :
                        container_metadata[i][1] = c.id}
        IN /\ c.id = op.args.container_id
           /\ \A i \in held :
                 /\ c.name = container_metadata[i][2]
                 /\ c.description = container_metadata[i][3]
                 /\ c.category = container_metadata[i][4]
           /\ held = {} =>
                 /\ c.name = "Container " \o ToString(c.id)
                 /\ c.description = "Unknown container"
                 /\ c.category = StatedCategory(c.id)

\* 229 is in no entry of the catalogue and at the end of a range
C14_Witness ==
    /\ OverviewContainer # None
    /\ OverviewContainer[2].id = 229
    /\ OverviewContainer[2].name = "Container 229"
    /\ OverviewContainer[2].category = "Essential Media Services"

\* 250 is in the catalogue
C14_WitnessCatalogued ==
    /\ OverviewContainer # None
    /\ OverviewContainer[2].id = 250
    /\ OverviewContainer[2].name = "Traktarr"
    /\ OverviewContainer[2].description = "Trakt.tv integration"

\* 251 lies between two ranges
C14_WitnessOther ==
    /\ OverviewContainer # None
    /\ OverviewContainer[2].id = 251
    /\ OverviewContainer[2].category = "Other"

\* the positions in the log of the backup copy and of the overwrite of
\* write_config
BackupCalls ==
    { i \in 1..Len(calls) : Len(calls[i].args) = 4 /\ calls[i].args[2] = "cp"
                            /\ calls[i].args[3] = op.args.config_path }
OverwriteCalls ==
    { i \in 1..Len(calls) : Len(calls[i].args) = 3 /\ calls[i].args[2] = "tee"
                            /\ calls[i].args[3] = op.args.config_path }

\* C16: write_config copies the prior file to a backup before it overwrites
\* the file: the backup command is issued, and has completed, before the
\* overwrite command is issued, and the backup's name carries the time of
\* the call so that an earlier backup is not replaced
C16_TimestampedBackupFirst ==
    op.name = "write_config" =>
        /\ BackupCalls # {}
        /\ \A i \in OverwriteCalls : \E k \in BackupCalls : k < i
        /\ \A k \in BackupCalls :
              /\ calls[k].args[4] # op.args.config_path
              /\ HasWord(calls[k].args[4], ToString(num_seconds(now)))

\* the part about the order alone
C16_BackupFirst ==
    op.name = "write_config" =>
        /\ BackupCalls # {}
        /\ \A i \in OverwriteCalls : \E k \in BackupCalls : k < i

\* the file is overwritten, and its backup has the one name every call uses;
\* nothing was copied, the copy could not be launched
C16_SameNameEveryTime ==
    /\ op.name = "write_config"
    /\ result.tag = "Ok"
    /\ now > 0
    /\ calls[1].args[4] = op.args.config_path \o ".backup"
    /\ ~calls[1].out.launched

\* the fields of the host's record in the order of their commands
HostField(v, i) ==
    CASE i = 1 -> v.hostname
      [] i = 2 -> v.version
      [] i = 3 -> v.uptime
      [] i = 4 -> v.cpu_count
      [] i = 5 -> v.memory_total
      [] i = 6 -> v.storage_info

HostSentinel(i) ==
    CASE i \in {1, 2, 3, 5} -> "Unknown"
      [] i = 4 -> 0
      [] i = 6 -> << >>

\* what a field holds after its own command has printed text and exited zero
HostStated(i, text) ==
    CASE i = 1 /\ text = "" -> ""
      [] i = 2 /\ text = "" -> "Unknown"
      [] i = 3 /\ text = "\n" -> ""
      [] i = 4 /\ text = "many\n" -> 0
      [] i = 5 /\ text = "      total   used   free\n" -> "Unknown"
      [] i = 6 /\ text = "Name  Type  Status  Total  Used  Available  %\nlocal  dir  active\nnas  nfs  active  1000  nan  0  -\n"
            -> <<[name |-> "nas", storage_type |-> "nfs", total |-> "1000",
                  used |-> "nan", available |-> "0",
                  usage_percent |-> NonFinite]>>
      [] text = "pve\n" -> "pve"
      [] text = "pve-manager/8.1.4/ec5affc9e41f1d79 (running kernel: 6.5.11-8-pve)\n"
            -> "pve-manager/8.1.4/ec5affc9e41f1d79 (running kernel: 6.5.11-8-pve)"
      [] text = "up 3 days, 4 hours\n" -> "up 3 days, 4 hours"
      [] text = "16\n" -> 16
      [] text = "      total   used   free\nMem:   62Gi   10Gi   50Gi\nSwap:   8Gi   0B   8Gi\n"
            -> "62Gi"
      [] text = "Name  Type  Status  Total  Used  Available  %\nlocal  dir  active  1000  250  750  25.00%\nlocal-lvm  lvmthin  inactive  0  0  0  0.00%\n"
            -> <<[name |-> "local", storage_type |-> "dir", total |-> "1000",
                  used |-> "250", available |-> "750",
                  usage_percent |-> Finite(250)],
                 [name |-> "local-lvm", storage_type |-> "lvmthin", total |-> "0",
                  used |-> "0", available |-> "0", usage_percent |-> Finite(0)]>>

\* C18: get_proxmox_host_info returns Ok with every field present whichever
\* of its remote calls fail: a field whose call cannot be launched or exits
\* non-zero holds its sentinel ("Unknown" for hostname, version, uptime and
\* memory_total, 0 for cpu_count, no entry for storage_info), and every
\* field is decided by the outcome of its own call alone
C18_HostInfoDegrades ==
    op.name = "get_proxmox_host_info" =>
        /\ result.tag = "Ok"
        /\ DOMAIN result.val = {"hostname", "version", "uptime", "cpu_count",
                                "memory_total", "storage_info", "node_status"}
        /\ calls # << >> =>
              /\ Len(calls) = 6
              /\ \A i \in 1..6 :
                    /\ AttemptFails(calls[i].out)
                          => HostField(result.val, i) = HostSentinel(i)
                    /\ ~AttemptFails(calls[i].out)
                          => HostField(result.val, i)
                                = HostStated(i, calls[i].out.stdout)

\* the second and the fifth call fail, the other four answer
C18_Witness ==
    /\ op.name = "get_proxmox_host_info"
    /\ Len(calls) = 6
    /\ { i \in 1..6 : AttemptFails(calls[i].out) } = {2, 5}
    /\ ~calls[2].out.launched
    /\ result.tag = "Ok"
    /\ result.val.hostname = "pve"
    /\ result.val.version = "Unknown"
    /\ result.val.cpu_count = 16
    /\ result.val.memory_total = "Unknown"
    /\ Len(result.val.storage_info) = 2

\* all six calls exit non-zero
C18_WitnessAllFail ==
    /\ op.name = "get_proxmox_host_info"
    /\ Len(calls) = 6
    /\ \A i \in 1..6 : calls[i].out.launched /\ ~calls[i].out.success
    /\ result.tag = "Ok"
    /\ \A i \in 1..6 : HostField(result.val, i) = HostSentinel(i)

\* a fresh record is returned from the cache, no command is run
C18_WitnessCached ==
    /\ op.name = "get_proxmox_host_info"
    /\ calls = << >>
    /\ now = HOST_CACHE_DURATION * TicksPerSecond - 1
    /\ result.tag = "Ok"
    /\ result.val.hostname = "Unknown"

\* the first line of an output, None for an output without any: the text
\* before the first newline, less the carriage return that precedes it
FirstLineOf(text) ==
    LET ends == { i \in 1..Len(text) : SubSeq(text, i, i) = "\n" }
        end == IF ends = {} THEN Len(text) + 1
               ELSE CHOOSE i \in ends : \A j \in ends : i <= j
        crlf == end <= Len(text) /\ end > 1 /\ SubSeq(text, end - 1, end - 1) = "\r"
    IN IF text = "" THEN None
       ELSE Some(SubSeq(text, 1, IF crlf THEN end - 2 ELSE end - 1))

\* an attempt is taken: it exits zero and its first output line is non-empty
\* and shorter than 200, counted in characters, or in the bytes of its UTF-8
\* encoding
AttemptTaken(answer, in_bytes) ==
    /\ answer.launched /\ answer.success
    /\ FirstLineOf(answer.stdout) # None
    /\ FirstLineOf(answer.stdout)[2] # ""
    /\ (IF in_bytes THEN len(FirstLineOf(answer.stdout)[2])
        ELSE Len(FirstLineOf(answer.stdout)[2])) < 200

\* the flags check_binary passed to the binary it found, in the order of the
\* calls, and what each call came back with
VersionAttempts ==
    SelectSeq(calls, LAMBDA c : Len(c.args) = 3 /\ c.args[2] = result.val.path)

\* after a --version that ran and exited non-zero: the flags -v, -V, version,
\* --help are tried in that order up to the first attempt taken, none after
\* it, and the version is that attempt's first line
AltCascade(in_bytes) ==
    LET b == op.args.remote
        flags == <<"-v", "-V", "version", "--help">>
        taken == { i \in 1..4 : AttemptTaken(b.alts[i], in_bytes) }
        last == IF taken = {} THEN 4
                ELSE CHOOSE i \in taken : \A j \in taken : i <= j
    IN (FoundBinary /\ b.version.launched /\ ~b.version.success) =>
          /\ Len(VersionAttempts) = 1 + last
          /\ VersionAttempts[1].args[3] = "--version"
          /\ \A i \in 1..last :
                /\ VersionAttempts[1 + i].args[3] = flags[i]
                /\ VersionAttempts[1 + i].out = b.alts[i]
          /\ taken # {} =>
                result.val.version = FirstLineOf(b.alts[last].stdout)[2]

\* C19, with the length as the code counts it: after a --version attempt that
\* ran and exited non-zero, check_binary tries -v, -V, version, --help in
\* exactly that order, stops at the first attempt that exits zero with a first
\* output line that is non-empty and shorter than 200 bytes of UTF-8, issues
\* no attempt after it and reports that line as the version; an attempt that
\* fails or whose first line is empty or 200 bytes or longer is skipped
C19_AltCascadeBytes == AltCascade(TRUE)

\* C19 as stated, the length counted in characters
C19_AltCascadeCharacters == AltCascade(FALSE)

\* -v prints an empty first line, -V a line of 200 characters, both are
\* skipped; version prints 199 characters and is taken; --help is not tried
C19_Witness ==
    /\ FoundBinary
    /\ op.args.remote.version.launched /\ ~op.args.remote.version.success
    /\ Len(VersionAttempts) = 4
    /\ VersionAttempts[2].out.stdout = "\nnginx 1.24\n"
    /\ Len(FirstLineOf(VersionAttempts[3].out.stdout)[2]) = 200
    /\ VersionAttempts[4].args[3] = "version"
    /\ Len(result.val.version) = 199
    /\ AttemptTaken(op.args.remote.alts[4], TRUE)

\* -v is taken; -V, which would be taken too, is not tried
C19_WitnessFirstWins ==
    /\ FoundBinary
    /\ op.args.remote.version.launched /\ ~op.args.remote.version.success
    /\ Len(VersionAttempts) = 2
    /\ AttemptTaken(op.args.remote.alts[2], TRUE)
    /\ result.val.version = "nginx 1.24"

\* -v prints one line of 100 characters that take 200 bytes: it is skipped
C19_WitnessTwoByteCharacters ==
    /\ FoundBinary
    /\ op.args.remote.version.launched /\ ~op.args.remote.version.success
    /\ op.args.remote.alts[1].launched /\ op.args.remote.alts[1].success
    /\ FirstLineOf(op.args.remote.alts[1].stdout) # None
    /\ Len(FirstLineOf(op.args.remote.alts[1].stdout)[2]) = 100
    /\ len(FirstLineOf(op.args.remote.alts[1].stdout)[2]) = 200
    /\ Len(VersionAttempts) = 3
    /\ result.val.version = "nginx 1.24"

\* the candidate directories, in the order the code lists them
ListedDirectories ==
    <<"/opt/*/bin", "/opt/bin", "/usr/local/sbin", "/usr/games", "/snap/bin",
      "~/.local/bin", "/home/*/bin", "/var/lib/*/bin", "/srv/*/bin",
      "/app/bin", "/config/bin", "/data/bin", "/media/*/bin", "/mnt/*/bin">>

\* the find commands check_binary issued, in the order of the calls
DirectoryProbes ==
    SelectSeq(calls, LAMBDA c : Len(c.args) > 3 /\ c.args[2] = "find")

\* a probe matches: it exits zero and prints more than blanks
ProbeMatches(answer) ==
    /\ answer.launched /\ answer.success
    /\ \E i \in 1..Len(answer.stdout) :
          SubSeq(answer.stdout, i, i) \notin {" ", "\t", "\r", "\n"}

\* C20: when `which` ran and found nothing, check_binary probes the candidate
\* directories in the listed order with one find per directory and stops at
\* the first probe that exits zero with non-blank output, whose output is the
\* path: no directory after the match is probed, an earlier match wins over
\* a later one.  When `which` succeeds no directory is probed.
C20_ProbeOrder ==
    (op.name = "check_binary" /\ result.tag = "Ok") =>
        LET b == op.args.remote
            matches == { i \in 1..Len(ListedDirectories) : ProbeMatches(b.finds[i]) }
            last == IF matches = {} THEN Len(ListedDirectories)
                    ELSE CHOOSE i \in matches : \A j \in matches : i <= j
        IN IF b.which.success
           THEN DirectoryProbes = << >>
           ELSE /\ Len(DirectoryProbes) = last
                /\ \A i \in 1..last :
                      /\ DirectoryProbes[i].args[3] = ListedDirectories[i]
                      /\ DirectoryProbes[i].out = b.finds[i]
                /\ matches = {} => ~result.val.exists
                /\ matches # {} =>
                      /\ result.val.exists
                      /\ result.val.path \o "\n" = b.finds[last].stdout

\* the second and the fifth directory hold the binary: two probes, the path
\* is the second directory's, the probes before the match exited non-zero
\* with output
C20_Witness ==
    /\ op.name = "check_binary" /\ result.tag = "Ok"
    /\ ~op.args.remote.which.success
    /\ ProbeMatches(op.args.remote.finds[5])
    /\ Len(DirectoryProbes) = 2
    /\ DirectoryProbes[1].out = Exited(FALSE, "/tmp/nginx\n", "")
    /\ result.val.path = "/opt/bin/nginx"

\* `which` succeeds: no directory is probed, though the first would match
C20_WitnessInPath ==
    /\ op.name = "check_binary" /\ result.tag = "Ok"
    /\ op.args.remote.which.success
    /\ ProbeMatches(op.args.remote.finds[1])
    /\ DirectoryProbes = << >>
    /\ result.val.path = "/usr/bin/nginx"

\* no directory matches: all fourteen are probed, blank output is no match
C20_WitnessNowhere ==
    /\ op.name = "check_binary" /\ result.tag = "Ok"
    /\ Len(DirectoryProbes) = Len(ListedDirectories)
    /\ DirectoryProbes[1].out = Exited(TRUE, "  \n", "")
    /\ ~result.val.exists
    /\ result.val.path = "Not found"

\* `which` cannot be launched: an error, no probe
C20_WitnessWhichNotLaunched ==
    /\ op.name = "check_binary" /\ result.tag = "Err"
    /\ ~calls[1].out.launched
    /\ Len(calls) = 1

----------------------------------------------------------------------------
(* Enrichment of a status fetch                                            *)

\* the processes a status fetch spawns after its status command
EnrichmentCalls == SubSeq(calls, 2, Len(calls))

\* run under timeout(1) with a duration: the process is killed when the
\* duration has passed, so Command::output() returns
UnderTimeout(call) ==
    /\ call.prog = "timeout"
    /\ Len(call.args) >= 2
    /\ parse_u32(call.args[1]) # None

\* C21: every enrichment call that a status fetch issues (OS info and
\* memory configuration in get_container_status, uptime in get_vm_status)
\* is bounded by a timeout
C21_EnrichmentUnderTimeout ==
    op.name \in {"get_container_status", "get_vm_status"} =>
        \A i \in 1..Len(EnrichmentCalls) : UnderTimeout(EnrichmentCalls[i])

\* the part of C21 that holds: the two enrichment calls of
\* get_container_status are run under timeout
C21_ContainerEnrichmentUnderTimeout ==
    op.name = "get_container_status" =>
        \A i \in 1..Len(EnrichmentCalls) : UnderTimeout(EnrichmentCalls[i])

\* the uptime call of get_vm_status is a plain ssh, whose output() the
\* handler waits for without limit
C21_UptimeUnbounded ==
    /\ op.name = "get_vm_status"
    /\ Len(calls) = 2
    /\ calls[2].prog = "ssh"
    /\ SubSeq(calls[2].args, 2, 3) = <<"qm", "monitor">>

\* an enrichment command failed: it could not be launched, it exited
\* non-zero (as `timeout` does, with 124, when it has killed the command),
\* or what it printed is among the texts with nothing to take
EnrichmentFailed(out, unparsable) ==
    \/ ~out.launched
    \/ ~out.success
    \/ out.stdout \in unparsable

\* outputs of cat /etc/os-release that name no system: no NAME= line, an
\* empty name, the name "Unknown"
OsUnparsable == {"", "NAME=\n", "ID=debian\n", "NAME=\"Unknown\"\n"}

\* outputs of pct config with no memory: line that holds a number
ConfigUnparsable == {"", "cores: 2\n"}

\* the default of memory_usage: (container_id as f64 * 15.0) % 1024.0
MemoryDefault(container_id) == Finite(((container_id * 15) % 1024) * 10)

\* C22: when the status command succeeds get_container_status returns Ok,
\* with the id asked for and the status its output states, whatever the
\* enrichment commands do; a failed enrichment leaves os_info absent and
\* memory_usage at its default; enrichment commands are issued only when
\* the status is Running
C22_EnrichmentBestEffort ==
    (/\ op.name = "get_container_status"
     /\ calls[1].out.launched /\ calls[1].out.success)
        => /\ result.tag = "Ok"
           /\ result.val.id = op.args.container_id
           /\ result.val.status = StatedStatus(calls[1].out.stdout)
           /\ Len(calls) = IF StatedStatus(calls[1].out.stdout) = "Running"
                           THEN 3 ELSE 1
           /\ (Len(calls) = 1 \/ EnrichmentFailed(calls[2].out, OsUnparsable))
                  => result.val.os_info = None
           /\ (Len(calls) = 1 \/ EnrichmentFailed(calls[3].out, ConfigUnparsable))
                  => result.val.memory_usage = MemoryDefault(op.args.container_id)

\* a running container whose two enrichment commands cannot be launched
C22_Witness ==
    /\ op.name = "get_container_status"
    /\ result.tag = "Ok"
    /\ result.val.status = "Running"
    /\ Len(calls) = 3
    /\ ~calls[2].out.launched /\ ~calls[3].out.launched
    /\ result.val.os_info = None
    /\ result.val.memory_usage = MemoryDefault(op.args.container_id)

\* one enrichment exits non-zero, the other prints nothing to take
C22_WitnessMixed ==
    /\ op.name = "get_container_status"
    /\ result.tag = "Ok"
    /\ Len(calls) = 3
    /\ calls[2].out.launched /\ ~calls[2].out.success
    /\ calls[3].out.launched /\ calls[3].out.success
    /\ calls[3].out.stdout = "cores: 2\n"
    /\ result.val.os_info = None
    /\ result.val.memory_usage = MemoryDefault(op.args.container_id)

\* a stopped container: no enrichment command at all
C22_WitnessStopped ==
    /\ op.name = "get_container_status"
    /\ result.tag = "Ok"
    /\ result.val.status = "Stopped"
    /\ Len(calls) = 1

\* both enrichments succeed: the name and the memory are taken
C22_WitnessEnriched ==
    /\ op.name = "get_container_status"
    /\ result.tag = "Ok"
    /\ Len(calls) = 3
    /\ result.val.os_info = Some("Debian GNU/Linux")
    /\ result.val.memory_usage = Finite(5120)

(* The two overview endpoints, polled by the frontend.  A request runs     *)
(* get_system_overview or get_maintenance_overview step by step: the       *)
(* validity check, the read of the cache, discovery, one fetch per target  *)
(* (or the maintenance sweeps), composition, the store, the return.  The   *)
(* remote side answers a command the same way each time it is asked.       *)

MaxRequests == 2
MaxListed == 3
MaxListedVms == 1

\* what pct list / qm list may answer: it cannot be launched, it exits
\* non-zero, or it prints the header and the first rows of the listing
ListingAnswers(tool) ==
    LET header == "VMID       Status     Lock         Name\n"
        rows == IF tool = "pct"
                THEN <<"100        running                 wireguard\n",
                       "230        stopped                 plex\n",
                       "214        running                 sonarr\n",
                       "lxc-7      running                 legacy\n",
                       "999        running                 scratch\n">>
                ELSE <<"       500 homeassistant        running    4096\n",
                       "       612 bliss                running    8192\n",
                       "       777 scratch-vm           stopped    2048\n">>
        most == IF tool = "pct" THEN MaxListed ELSE MaxListedVms
        row(k, n) == IF k <= n /\ k <= Len(rows) THEN rows[k] ELSE ""
    IN { LaunchFailure("No such file or directory (os error 2)"),
         Exited(FALSE, "", "Connection refused") }
       \cup { Exited(TRUE, header \o row(1, n) \o row(2, n) \o row(3, n)
                                  \o row(4, n) \o row(5, n), "") :
                 n \in 0..most }

\* what the processes of one status fetch may answer, in the order in which
\* get_container_status / get_vm_status starts them
FetchAnswers(tool) ==
    LET running == Exited(TRUE, "status: running\n", "")
    IN { <<LaunchFailure("No such file or directory (os error 2)")>>,
         <<Exited(TRUE, "status: stopped\n", "")>> }
       \cup IF tool = "pct"
            THEN { <<Exited(FALSE, "", "Configuration file does not exist")>>,
                   <<running, Exited(TRUE, "NAME=\"Debian GNU/Linux\"\n", ""),
                     Exited(TRUE, "arch: amd64\nmemory: 512\n", "")>>,
                   <<running, Exited(FALSE, "", ""),
                     Exited(TRUE, "memory: nan\n", "")>> }
            ELSE { <<running, Exited(TRUE, "VM uptime: 3 days\n", "")>> }

\* the remote sides of a get_maintenance_overview run: the reach of the host,
\* of the containers and of the two VM aliases, and what df prints
MaintenanceWorlds ==
    { [reach |-> reach, df |-> df] :
          reach \in [{"proxmox", "container", "homeassistant", "alexa"} ->
                        {"up", "refused"}]
                    \cup {[class \in {"proxmox", "container", "homeassistant",
                                      "alexa"} |-> "unlaunchable"]},
          df \in {"Filesystem Size Used Avail Use% Mounted on\n/dev/sda1 94G 40G 50G 45% /\n",
                  "Filesystem Size Used Avail Use% Mounted on\nrpool 0 0 0 nan% /\n"} }

\* the instants at which the clock is read: the start, and the two ends of
\* the freshness window of an entry stored at the start
PollInstants ==
    LET d == IF session = "system" THEN CACHE_DURATION
             ELSE MAINTENANCE_CACHE_DURATION
    IN {0, d * TicksPerSecond - 1, d * TicksPerSecond}

\* the frontend polls one of the two endpoints; world remembers what the
\* remote side has answered, a command asked again is answered the same way
InitPolling ==
    /\ CacheEmpty
    /\ OpsIdle
    /\ req = << >>
    /\ session \in {"system", "maintenance"}
    /\ world = [kind |-> "remote", pct_list |-> None, qm_list |-> None,
                pct |-> << >>, qm |-> << >>, maintenance |-> None]

\* the request in progress has reached the step pc
At(pc) == IF req = << >> THEN FALSE ELSE req[Len(req)].pc = pc

\* the answers the remote side may give: the one it gave before, if any
Answer(known, fresh) == IF known # None THEN {known[2]} ELSE fresh

\* time passes between two requests; the steps of one request fall within
\* one tick of the clock
AdvancePolling ==
    /\ At("returned")
    /\ \E t \in PollInstants :
          /\ t > now
          /\ now' = t
    /\ UNCHANGED <<cache, stores, nstores, lk, rw, opVars, passVars>>

\* the frame of a request that has just been invoked: started is its place
\* in the order of invocation
NewRequest ==
    [kind |-> session, pc |-> "check", at |-> 0, seen |-> None,
     calls |-> << >>, stored |-> None, result |-> NoResult,
     started |-> Len(req) + 1,
     local |-> IF session = "system"
               THEN [existing_container_ids |-> << >>,
                     existing_vm_ids |-> << >>,
                     i |-> 1,
                     containers |-> << >>,
                     vms |-> << >>,
                     overview |-> None]
               ELSE [services |-> << >>,
                     binaries |-> << >>,
                     configs |-> << >>,
                     system_health |-> None,
                     overview |-> None]]

\* the frontend polls its endpoint, one request at a time
StartRequest ==
    /\ Len(req) < MaxRequests
    /\ IF req = << >> THEN TRUE ELSE req[Len(req)].pc = "returned"
    /\ req' = Append(req, NewRequest)
    /\ UNCHANGED <<cacheVars, lk, rw, opVars, world, session>>

\* if is_cache_valid(cache_key) / is_cache_valid_with_duration(cache_key, ..);
\* at and seen note the instant and the entry found
CacheCheck ==
    /\ At("check")
    /\ LET r == Len(req)
           f == req[r]
           key == f.kind \o "_overview"
           valid == IF f.kind = "system" THEN is_cache_valid(key)
                    ELSE is_cache_valid_with_duration(key, MAINTENANCE_CACHE_DURATION)
       IN /\ req' = [req EXCEPT ![r] =
                        [f EXCEPT !.pc = IF valid THEN "get"
                                         ELSE IF f.kind = "system"
                                         THEN "discover_containers" ELSE "checks",
                                  !.at = now,
                                  !.seen = IF key \in DOMAIN cache
                                           THEN Some(cache[key]) ELSE None]]
          /\ UNCHANGED <<cacheVars, lk, rw, opVars, world, session>>

\* if let Some(cached_data) = get_from_cache(cache_key), if let Ok(overview)
\* = serde_json::from_str(&cached_data): return Ok(overview)
CacheGet ==
    /\ At("get")
    /\ LET r == Len(req)
           f == req[r]
           cached_data == get_from_cache(f.kind \o "_overview")
           parsed == from_str(f.kind, cached_data[2])
       IN /\ req' = [req EXCEPT ![r] =
                        IF cached_data # None /\ parsed.tag = "Ok"
                        THEN [f EXCEPT !.pc = "returned", !.result = Ok(parsed.val)]
                        ELSE [f EXCEPT !.pc = IF f.kind = "system"
                                              THEN "discover_containers"
                                              ELSE "checks"]]
          /\ UNCHANGED <<cacheVars, lk, rw, opVars, world, session>>

\* a failed listing ends the request with its error
DiscoverContainers_propagating ==
    /\ At("discover_containers")
    /\ \E out \in Answer(world.pct_list, ListingAnswers("pct")) :
          LET r == Len(req)
              f == req[r]
              listed == get_existing_ids("pct", <<out>>)
          IN /\ req' = [req EXCEPT ![r] =
                           IF listed.result.tag = "Err"
                           THEN [f EXCEPT !.pc = "returned",
                                          !.calls = f.calls \o listed.calls,
                                          !.result = listed.result]
                           ELSE [f EXCEPT !.pc = "discover_vms",
                                          !.calls = f.calls \o listed.calls,
                                          !.local.existing_container_ids =
                                              listed.result.val]]
             /\ world' = [world EXCEPT !.pct_list = Some(out)]
             /\ UNCHANGED <<cacheVars, lk, rw, opVars, session>>

\* existing_container_ids = get_existing_containers().await.unwrap_or_default()
DiscoverContainers ==
    /\ At("discover_containers")
    /\ \E out \in Answer(world.pct_list, ListingAnswers("pct")) :
          LET r == Len(req)
              f == req[r]
              listed == get_existing_ids("pct", <<out>>)
          IN /\ req' = [req EXCEPT ![r] =
                           [f EXCEPT !.pc = "discover_vms",
                                     !.calls = f.calls \o listed.calls,
                                     !.local.existing_container_ids =
                                         unwrap_or_default(listed.result, << >>)]]
             /\ world' = [world EXCEPT !.pct_list = Some(out)]
             /\ UNCHANGED <<cacheVars, lk, rw, opVars, session>>

\* existing_vm_ids = get_existing_vms().await.unwrap_or_default()
DiscoverVms ==
    /\ At("discover_vms")
    /\ \E out \in Answer(world.qm_list, ListingAnswers("qm")) :
          LET r == Len(req)
              f == req[r]
              listed == get_existing_ids("qm", <<out>>)
              vm_ids == unwrap_or_default(listed.result, << >>)
          IN /\ req' = [req EXCEPT ![r] =
                           [f EXCEPT !.pc = IF f.local.existing_container_ids # << >>
                                            THEN "containers"
                                            ELSE IF vm_ids # << >> THEN "vms"
                                            ELSE "compose",
                                     !.calls = f.calls \o listed.calls,
                                     !.local.existing_vm_ids = vm_ids]]
             /\ world' = [world EXCEPT !.qm_list = Some(out)]
             /\ UNCHANGED <<cacheVars, lk, rw, opVars, session>>

\* one turn of the loop over existing_container_ids
FetchContainer ==
    /\ At("containers")
    /\ LET r == Len(req)
           f == req[r]
           l == f.local
           container_id == l.existing_container_ids[l.i]
       IN \E o \in Answer(IF container_id \in DOMAIN world.pct
                          THEN Some(world.pct[container_id]) ELSE None,
                          FetchAnswers("pct")) :
             LET fetched == get_container_status(container_id, o)
             IN /\ req' = [req EXCEPT ![r] =
                              [f EXCEPT !.pc = IF l.i < Len(l.existing_container_ids)
                                               THEN "containers"
                                               ELSE IF l.existing_vm_ids # << >>
                                               THEN "vms" ELSE "compose",
                                        !.calls = f.calls \o fetched.calls,
                                        !.local.i =
                                            IF l.i < Len(l.existing_container_ids)
                                            THEN l.i + 1 ELSE 1,
                                        !.local.containers =
                                            Pushed(l.containers, fetched.result,
                                                   OverlayContainer(fetched.result.val))]]
                /\ world' = [world EXCEPT !.pct =
                                [id \in DOMAIN world.pct \cup {container_id} |->
                                    IF id = container_id THEN o ELSE world.pct[id]]]
                /\ UNCHANGED <<cacheVars, lk, rw, opVars, session>>

\* one turn of the loop over existing_vm_ids
FetchVm ==
    /\ At("vms")
    /\ LET r == Len(req)
           f == req[r]
           l == f.local
           vm_id == l.existing_vm_ids[l.i]
       IN \E o \in Answer(IF vm_id \in DOMAIN world.qm
                          THEN Some(world.qm[vm_id]) ELSE None,
                          FetchAnswers("qm")) :
             LET fetched == get_vm_status(vm_id, o)
             IN /\ req' = [req EXCEPT ![r] =
                              [f EXCEPT !.pc = IF l.i < Len(l.existing_vm_ids)
                                               THEN "vms" ELSE "compose",
                                        !.calls = f.calls \o fetched.calls,
                                        !.local.i = l.i + 1,
                                        !.local.vms =
                                            Pushed(l.vms, fetched.result,
                                                   OverlayVm(fetched.result.val))]]
                /\ world' = [world EXCEPT !.qm =
                                [id \in DOMAIN world.qm \cup {vm_id} |->
                                    IF id = vm_id THEN o ELSE world.qm[id]]]
                /\ UNCHANGED <<cacheVars, lk, rw, opVars, session>>

\* the four sweeps of get_maintenance_overview, each unwrap_or_default
RunChecks ==
    /\ At("checks")
    /\ \E w \in Answer(world.maintenance, MaintenanceWorlds) :
          LET r == Len(req)
              f == req[r]
              services == get_all_services(w)
              binaries == get_all_binaries(w)
              configs == get_all_configs(w)
              health == get_system_health(
                            OracleFor(w, None, None,
                                      <<Exited(TRUE, w.df, ""),
                                        Exited(TRUE, "Mem: 64000 32000 32000\n", ""),
                                        Exited(TRUE, " 10:00:00 up 3 days\n", "")>>))
          IN /\ req' = [req EXCEPT ![r] =
                           [f EXCEPT !.pc = "compose",
                                     !.calls = f.calls \o services.calls
                                               \o binaries.calls \o configs.calls
                                               \o health.calls,
                                     !.local.services =
                                         unwrap_or_default(services.result, << >>),
                                     !.local.binaries =
                                         unwrap_or_default(binaries.result, << >>),
                                     !.local.configs =
                                         unwrap_or_default(configs.result, << >>),
                                     !.local.system_health = health.result.val]]
             /\ world' = [world EXCEPT !.maintenance = Some(w)]
             /\ UNCHANGED <<cacheVars, lk, rw, opVars, session>>

\* the aggregate is built, last_updated: Utc::now()
Compose ==
    /\ At("compose")
    /\ LET r == Len(req)
           f == req[r]
           l == f.local
       IN /\ req' = [req EXCEPT ![r] =
                        [f EXCEPT !.pc = "store",
                                  !.local.overview =
                                      IF f.kind = "system"
                                      THEN ComposeSystemOverview(l.containers, l.vms)
                                      ELSE [services |-> l.services,
                                            binaries |-> l.binaries,
                                            configs |-> l.configs,
                                            system_health |-> l.system_health,
                                            last_updated |-> now]]]
          /\ UNCHANGED <<cacheVars, lk, rw, opVars, world, session>>

\* an overview with no record at all is not stored
StoreOverview_unless_empty ==
    /\ At("store")
    /\ LET r == Len(req)
           f == req[r]
           key == f.kind \o "_overview"
           serialized == to_string(f.kind, f.local.overview)
       IN /\ cache' = IF /\ f.kind = "system"
                        /\ f.local.overview.total_containers = 0
                        /\ f.local.overview.total_vms = 0
                     THEN cache ELSE store_in_cache(key, serialized)
          /\ req' = [req EXCEPT ![r] =
                        [f EXCEPT !.pc = "return", !.stored = Some(serialized)]]
          /\ UNCHANGED <<now, stores, nstores, lk, rw, opVars, world, session>>

\* if let Ok(serialized) = serde_json::to_string(&overview):
\* store_in_cache(cache_key, &serialized)
StoreOverview ==
    /\ At("store")
    /\ LET r == Len(req)
           f == req[r]
           key == f.kind \o "_overview"
           serialized == to_string(f.kind, f.local.overview)
       IN /\ cache' = store_in_cache(key, serialized)
          /\ req' = [req EXCEPT ![r] =
                        [f EXCEPT !.pc = "return", !.stored = Some(serialized)]]
          /\ UNCHANGED <<now, stores, nstores, lk, rw, opVars, world, session>>

\* Ok(overview)
Return ==
    /\ At("return")
    /\ LET r == Len(req)
           f == req[r]
       IN /\ req' = [req EXCEPT ![r] =
                        [f EXCEPT !.pc = "returned",
                                  !.result = Ok(f.local.overview)]]
          /\ UNCHANGED <<cacheVars, lk, rw, opVars, world, session>>

NextPolling ==
    \/ AdvancePolling
    \/ StartRequest
    \/ CacheCheck
    \/ CacheGet
    \/ DiscoverContainers
    \/ DiscoverVms
    \/ FetchContainer
    \/ FetchVm
    \/ RunChecks
    \/ Compose
    \/ StoreOverview
    \/ Return

Spec == InitPolling /\ [][NextPolling]_vars

----------------------------------------------------------------------------
(* Properties of the overview endpoints                                    *)

\* the requests that have returned to their caller
Returned == { r \in DOMAIN req : req[r].pc = "returned" }

\* the requests of get_system_overview that composed their aggregate
Composed ==
    { r \in Returned : req[r].kind = "system" /\ req[r].stored # None }

\* the entry a request found was fresh at its validity check
FoundFresh(f) ==
    /\ f.seen # None
    /\ num_seconds(f.at - f.seen[2][2])
          < (IF f.kind = "system" THEN CACHE_DURATION
             ELSE MAINTENANCE_CACHE_DURATION)

\* the request f answered from the entry it found: no remote command, and
\* the aggregate of the earlier request that stored the entry
AnsweredFromCache(r) ==
    /\ req[r].calls = << >>
    /\ \E q \in 1..(r - 1) :
          /\ req[q].stored = Some(req[r].seen[2][1])
          /\ req[r].result = req[q].result

\* the request ran a pass: remote commands starting with the discovery (or
\* the sweeps), and its aggregate is in the cache when it returns
AnsweredFromPass(r) ==
    /\ req[r].calls # << >>
    /\ req[r].result.tag = "Ok"
    /\ req[r].stored = Some(to_string(req[r].kind, req[r].result.val))
    /\ r = Len(req) =>
          /\ (req[r].kind \o "_overview") \in DOMAIN cache
          /\ cache[req[r].kind \o "_overview"][1] = req[r].stored[2]

\* C2: an overview request that finds a fresh cache entry returns the cached
\* aggregate and issues no remote command; a request that misses runs the
\* pass and has written its aggregate to the cache when it returns
C2_FreshHitNoCommand ==
    \A r \in Returned :
        IF FoundFresh(req[r]) THEN AnsweredFromCache(r) ELSE AnsweredFromPass(r)

\* the same, for the entries serde_json::from_str reads back
C2_ReadableEntries ==
    \A r \in Returned :
        IF FoundFresh(req[r]) /\ from_str(req[r].kind, req[r].seen[2][1]).tag = "Ok"
        THEN AnsweredFromCache(r)
        ELSE AnsweredFromPass(r)

\* a fresh entry that from_str rejects: the request ran the pass again
C2_UnreadableFresh ==
    \E r \in Returned :
        /\ FoundFresh(req[r])
        /\ from_str(req[r].kind, req[r].seen[2][1]).tag = "Err"
        /\ req[r].calls # << >>

\* the ids of a list of records, in order
RecordIds(records) == [i \in 1..Len(records) |-> records[i].id]

\* the status command of container id was launched and exited zero
StatusFetched(id) == world.pct[id][1].launched /\ world.pct[id][1].success

\* C3: get_system_overview returns Ok with exactly one record for each
\* discovered id whose status fetch succeeded, none for a failed one, and a
\* total equal to the number of records
C3_OneRecordPerFetched ==
    \A r \in Composed :
        LET ids == req[r].local.existing_container_ids
            records == req[r].result.val.containers
        IN /\ req[r].result.tag = "Ok"
           /\ RecordIds(records) = SelectSeq(ids, StatusFetched)
           /\ req[r].result.val.total_containers = Len(records)

\* three discovered, the status command of the second cannot be launched:
\* two records, those of the first and the third, and a total of 2
C3_Witness ==
    \E r \in Composed :
        /\ req[r].local.existing_container_ids = <<100, 230, 214>>
        /\ ~world.pct[230][1].launched
        /\ RecordIds(req[r].result.val.containers) = <<100, 214>>
        /\ req[r].result.val.total_containers = 2
        /\ req[r].result.tag = "Ok"

\* C4: get_system_overview and get_maintenance_overview return Ok whatever
\* remote calls fail, the discovery listings and every per-target check
\* included; neither returns Err
C4_AlwaysOk == \A r \in Returned : req[r].result.tag = "Ok"

\* both discovery listings failed and the request returned Ok, no records
C4_Witness ==
    \E r \in Returned :
        /\ req[r].kind = "system"
        /\ req[r].stored # None
        /\ ~world.pct_list[2].launched
        /\ ~world.qm_list[2].success
        /\ req[r].result.tag = "Ok"
        /\ req[r].result.val.total_containers = 0

\* every target listed and every status fetch failing
C4_WitnessAllFetchesFail ==
    \E r \in Composed :
        /\ Len(req[r].local.existing_container_ids) = MaxListed
        /\ \A id \in DOMAIN world.pct : ~StatusFetched(id)
        /\ req[r].result.tag = "Ok"

\* no command of the maintenance sweeps can be launched
C4_WitnessNothingLaunches ==
    \E r \in Returned :
        /\ req[r].kind = "maintenance"
        /\ req[r].calls # << >>
        /\ \A k \in 1..Len(req[r].calls) : ~req[r].calls[k].out.launched
        /\ req[r].result.tag = "Ok"

RECURSIVE IsSubsequence(_, _)
IsSubsequence(s, t) ==
    IF s = << >> THEN TRUE
    ELSE IF t = << >> THEN FALSE
    ELSE IF Head(s) = Head(t) THEN IsSubsequence(Tail(s), Tail(t))
    ELSE IsSubsequence(s, Tail(t))

\* C7: the container records, and the VM records, of a returned overview are
\* in discovery order: their ids are a subsequence of the discovered ids
C7_DiscoveryOrder ==
    \A r \in Composed :
        /\ IsSubsequence(RecordIds(req[r].result.val.containers),
                         req[r].local.existing_container_ids)
        /\ IsSubsequence(RecordIds(req[r].result.val.vms),
                         req[r].local.existing_vm_ids)

\* a listing that is not in increasing order of id, every fetch succeeding
C7_Witness ==
    \E r \in Composed :
        /\ RecordIds(req[r].result.val.containers) = <<100, 230, 214>>
        /\ RecordIds(req[r].result.val.vms) = <<500>>

\* the number of records of a list whose status is Running
CountRunning(records) ==
    Cardinality({ i \in 1..Len(records) : records[i].status = "Running" })

\* C8: in every SystemOverview returned, composed or read back from the
\* cache, the totals are the numbers of records and the running counts the
\* numbers of records whose status is Running
C8_Counts ==
    \A r \in Returned :
        req[r].kind = "system" =>
            LET v == req[r].result.val
            IN /\ v.total_containers = Len(v.containers)
               /\ v.running_containers = CountRunning(v.containers)
               /\ v.total_vms = Len(v.vms)
               /\ v.running_vms = CountRunning(v.vms)
               /\ v.running_containers <= v.total_containers
               /\ v.running_vms <= v.total_vms

\* an overview read back from the cache, some records running and some not
C8_Witness ==
    \E r \in Returned :
        /\ req[r].kind = "system"
        /\ req[r].stored = None
        /\ req[r].result.val.total_containers = 3
        /\ req[r].result.val.running_containers = 1
        /\ req[r].result.val.total_vms = 1
        /\ req[r].result.val.running_vms = 0

\* C15: container 214 is in no catalogue entry and in none of the numeric
\* ranges, so its record in the overview has the category "Other" and the
\* generic description
C15_Id214Other ==
    \A r \in Returned :
        req[r].kind = "system" =>
            \A i \in 1..Len(req[r].result.val.containers) :
                LET c == req[r].result.val.containers[i]
                IN c.id = 214 =>
                      /\ \A k \in 1..Len(container_metadata) :
                            container_metadata[k][1] # 214
                      /\ c.category = "Other"
                      /\ c.description = "Unknown container"

\* C15, as the code has it: container 214 is the catalogue's Sonarr and lies
\* in the range 210-229, so its record in the overview has the catalogue's
\* name, description and category
C15_Id214Sonarr ==
    \A r \in Returned :
        req[r].kind = "system" =>
            \A i \in 1..Len(req[r].result.val.containers) :
                LET c == req[r].result.val.containers[i]
                IN c.id = 214 =>
                      /\ c.name = "Sonarr"
                      /\ c.description = "TV series management"
                      /\ c.category = "Essential Media Services"

\* what the overview holds for 214: the catalogue's entry
C15_Id214Catalogued ==
    \E r \in Returned :
        /\ req[r].kind = "system"
        /\ \E i \in 1..Len(req[r].result.val.containers) :
              LET c == req[r].result.val.containers[i]
              IN /\ c.id = 214
                 /\ c.name = "Sonarr"
                 /\ c.category = "Essential Media Services"
                 /\ c.description = "TV series management"
                 /\ \E k \in 1..Len(container_metadata) :
                       container_metadata[k] =
                           <<214, c.name, c.description, c.category>>
                 /\ StatedCategory(214) = c.category



\* the listing command could not be launched or exited non-zero
ListingFailed(known) ==
    known # None /\ (~known[2].launched \/ ~known[2].success)

\* an overview with zero records and zero counts
IsEmptyOverview(v) ==
    /\ v.containers = << >> /\ v.vms = << >>
    /\ v.total_containers = 0 /\ v.running_containers = 0
    /\ v.total_vms = 0 /\ v.running_vms = 0

\* C28: get_system_overview stores its result also when discovery failed:
\* after a pass in which both listing commands fail the cache holds an
\* overview with zero records and zero counts, and every request of the
\* following 300 s returns that overview without contacting the host
C28_EmptyOverviewCached ==
    (/\ session = "system"
     /\ ListingFailed(world.pct_list) /\ ListingFailed(world.qm_list))
        => /\ Returned # {} =>
                  /\ "system_overview" \in DOMAIN cache
                  /\ from_str("system", cache["system_overview"][1]).tag = "Ok"
                  /\ IsEmptyOverview(
                         from_str("system", cache["system_overview"][1]).val)
           /\ \A r \in Returned :
                 /\ req[r].result.tag = "Ok"
                 /\ IsEmptyOverview(req[r].result.val)
                 /\ IF /\ req[r].seen # None
                       /\ req[r].at - req[r].seen[2][2] < 300 * TicksPerSecond
                    THEN /\ req[r].calls = << >>
                         /\ req[r].stored = None
                         /\ req[r].result.val.last_updated = req[r].seen[2][2]
                    ELSE /\ Len(req[r].calls) = 2
                         /\ req[r].stored # None

\* both listings failed, the first request stored the empty overview and a
\* request one tick before the 300 s returned it, contacting nobody
C28_Witness ==
    /\ ListingFailed(world.pct_list) /\ ListingFailed(world.qm_list)
    /\ Len(req) = 2
    /\ req[1].stored # None
    /\ req[2].pc = "returned"
    /\ req[2].at = 300 * TicksPerSecond - 1
    /\ req[2].calls = << >>
    /\ req[2].result = req[1].result
    /\ IsEmptyOverview(req[2].result.val)

\* at 300 s the entry has expired: the request runs the two listings again
C28_WitnessExpired ==
    /\ ListingFailed(world.pct_list) /\ ListingFailed(world.qm_list)
    /\ Len(req) = 2
    /\ req[2].pc = "returned"
    /\ req[2].at = 300 * TicksPerSecond
    /\ Len(req[2].calls) = 2

----------------------------------------------------------------------------
(* The repair of the services                                              *)

\* the services of the catalogue of get_all_services, in its order
CatalogueNames ==
    <<"nginx", "docker", "ssh", "sonarr", "radarr", "prowlarr", "qbittorrent",
      "plex", "jellyfin", "home-assistant", "alexa-service">>

\* the spawned `systemctl <verb> <service>` commands, in order
Systemctl(verb) ==
    SelectSeq(calls, LAMBDA call : /\ Len(call.args) = 4
                                   /\ call.args[2] = "systemctl"
                                   /\ call.args[3] = verb)

\* target and service of each command of a sequence
Addressed(cs) == [k \in 1..Len(cs) |-> <<cs[k].args[1], cs[k].args[4]>>]

\* the status checks that returned and did not report the service active
ReportedNotActive ==
    SelectSeq(Systemctl("status"),
              LAMBDA call : /\ call.out.launched
                            /\ ~contains(call.out.stdout, "Active: active"))

\* C30: fix_all_services checks each service of the catalogue once, in
\* order; the restarts it issues are, in the same order and on the same
\* targets, exactly those of the services whose status check was launched
\* and did not report the service active, whether or not an earlier restart
\* failed; it returns Ok with one entry of actions_taken for each restart,
\* and success is true exactly when no restart failed.
C30_FixRestartsInactive ==
    (op # NoOp /\ op.name = "fix_all_services")
    => /\ [k \in 1..Len(Systemctl("status")) |-> Systemctl("status")[k].args[4]]
          = CatalogueNames
       /\ Addressed(Systemctl("restart")) = Addressed(ReportedNotActive)
       /\ result.tag = "Ok"
       /\ Len(result.val.actions_taken) = Len(Systemctl("restart"))
       /\ result.val.success
          <=> \A k \in 1..Len(Systemctl("restart")) :
                 ~CallFailed(Systemctl("restart")[k])

\* a restart failed and a later one was still issued, while one service
\* whose check could not be launched was left alone
C30_Witness ==
    /\ op # NoOp
    /\ op.name = "fix_all_services"
    /\ Len(Systemctl("restart")) >= 2
    /\ CallFailed(Systemctl("restart")[1])
    /\ ~CallFailed(Systemctl("restart")[Len(Systemctl("restart"))])
    /\ \E k \in 1..Len(Systemctl("status")) :
          ~Systemctl("status")[k].out.launched
    /\ ~result.val.success

\* every service is active: nothing restarted, success
C30_WitnessNothingToDo ==
    /\ op # NoOp
    /\ op.name = "fix_all_services"
    /\ Systemctl("restart") = << >>
    /\ Len(Systemctl("is-enabled")) = Len(CatalogueNames)
    /\ result.val.success

\* three restarts, of a service that was stopped and of two that were out
\* of reach, all of them succeeding
C30_WitnessAllRestarted ==
    /\ op # NoOp
    /\ op.name = "fix_all_services"
    /\ Len(Systemctl("restart")) = 3
    /\ \E k \in 1..3 : ReportedNotActive[k].out.stdout # ""
    /\ \E k \in 1..3 : ReportedNotActive[k].out.stdout = ""
    /\ result.val.success
    /\ result.val.actions_taken
         = <<"Restarted nginx", "Restarted sonarr", "Restarted alexa-service">>

----------------------------------------------------------------------------
(* The lock of the cache.  is_cache_valid_with_duration and get_from_cache *)
(* hold DATA_CACHE.read() for the time of their look at the entry,         *)
(* store_in_cache holds DATA_CACHE.write() for the time of its insert.     *)
(* Requests run on the threads of the async runtime and enter the three    *)
(* functions at any time.  No holder of the lock panics, so read() and     *)
(* write() never return a poisoned lock.  An insert writes the value and   *)
(* the timestamp of the entry one after the other.                         *)

MaxCalls == 3

\* a request enters one of the three functions
EnterCache ==
    /\ Len(req) < MaxCalls
    /\ \E fn \in {"is_cache_valid_with_duration", "get_from_cache",
                  "store_in_cache"} :
          /\ fn = "store_in_cache" => nstores < MaxStores
          /\ req' = Append(req,
                        [fn |-> fn, key |-> "system_overview", pc |-> "lock",
                         data |-> IF fn = "store_in_cache"
                                  THEN Payload(nstores + 1) ELSE "",
                         t |-> -1, seen |-> None, result |-> NoResult])
          /\ nstores' = IF fn = "store_in_cache" THEN nstores + 1 ELSE nstores
    /\ UNCHANGED <<now, cache, stores, lk, rw, opVars, world, session>>

\* a lock that lets a reader in while a store holds it
Lock_unguarded ==
    \E r \in 1..Len(req) :
        /\ req[r].pc = "lock"
        /\ req[r].fn = "store_in_cache" => (rw.readers = {} /\ rw.writers = {})
        /\ rw' = IF req[r].fn = "store_in_cache"
                 THEN [rw EXCEPT !.writers = @ \cup {r}]
                 ELSE [rw EXCEPT !.readers = @ \cup {r}]
        /\ req' = [req EXCEPT ![r].pc = "access"]
        /\ UNCHANGED <<cacheVars, lk, opVars, world, session>>

\* DATA_CACHE.read() returns when no store holds the lock, DATA_CACHE.write()
\* when nobody holds it
Lock ==
    \E r \in 1..Len(req) :
        /\ req[r].pc = "lock"
        /\ rw.writers = {}
        /\ req[r].fn = "store_in_cache" => rw.readers = {}
        /\ rw' = IF req[r].fn = "store_in_cache"
                 THEN [rw EXCEPT !.writers = @ \cup {r}]
                 ELSE [rw EXCEPT !.readers = @ \cup {r}]
        /\ req' = [req EXCEPT ![r].pc = "access"]
        /\ UNCHANGED <<cacheVars, lk, opVars, world, session>>

\* under the lock: cache.get(key) and what the reader makes of the entry;
\* cache.insert(key, (data, Utc::now())): the clock is read, the value is
\* written, then the timestamp
Access ==
    \E r \in 1..Len(req) :
        LET f == req[r]
            found == IF f.key \in DOMAIN cache THEN Some(cache[f.key]) ELSE None
        IN /\ f.pc \in {"access", "stamp"}
           /\ CASE f.fn = "store_in_cache" /\ f.pc = "access" ->
                       /\ cache' = [store_in_cache(f.key, f.data) EXCEPT
                                       ![f.key][2] = IF found = None THEN -1
                                                     ELSE found[2][2]]
                       /\ req' = [req EXCEPT ![r].pc = "stamp", ![r].t = now]
                [] f.fn = "store_in_cache" /\ f.pc = "stamp" ->
                       /\ cache' = [cache EXCEPT ![f.key][2] = f.t]
                       /\ req' = [req EXCEPT ![r].pc = "unlock"]
                [] OTHER ->
                       /\ cache' = cache
                       /\ req' = [req EXCEPT
                             ![r].pc = "unlock",
                             ![r].t = now,
                             ![r].seen = found,
                             ![r].result =
                                 IF f.fn = "get_from_cache"
                                 THEN Ok(get_from_cache(f.key))
                                 ELSE Ok(is_cache_valid_with_duration(
                                             f.key, DurationOf(f.key)))]
           /\ UNCHANGED <<now, stores, nstores, lk, rw, opVars, world, session>>

\* the guard goes out of scope, the function returns
Unlock ==
    \E r \in 1..Len(req) :
        /\ req[r].pc = "unlock"
        /\ rw' = [readers |-> rw.readers \ {r}, writers |-> rw.writers \ {r}]
        /\ req' = [req EXCEPT ![r].pc = "returned"]
        /\ UNCHANGED <<cacheVars, lk, opVars, world, session>>

NextLock ==
    \/ Tick
    \/ EnterCache
    \/ Lock
    \/ Access
    \/ Unlock

SpecLock == Init /\ [][NextLock]_vars

\* the (value, timestamp) pairs the stores to key have written so far, each
\* store its own
WrittenPairs(key) ==
    { <<req[g].data, req[g].t>> :
          g \in { g \in 1..Len(req) : /\ req[g].fn = "store_in_cache"
                                      /\ req[g].key = key
                                      /\ req[g].pc \in {"stamp", "unlock",
                                                        "returned"} } }

WaitingReaders ==
    { r \in 1..Len(req) : req[r].fn # "store_in_cache" /\ req[r].pc = "lock" }

\* C25: any number of reads hold the cache at the same time (a read that
\* waits is let in whenever no store holds the lock, whoever reads already);
\* a store excludes every reader and every other store; what a reader finds
\* for a key is no entry or a (value, timestamp) pair written by one store
C25_ReadersShareStoresExclude ==
    /\ Cardinality(rw.writers) <= 1
    /\ rw.writers # {} => rw.readers = {}
    /\ (WaitingReaders # {} /\ rw.writers = {})
           => ENABLED (Lock /\ rw'.readers # rw.readers)
    /\ \A r \in 1..Len(req) :
          (req[r].fn # "store_in_cache" /\ req[r].seen # None)
              => req[r].seen[2] \in WrittenPairs(req[r].key)

\* two reads hold the lock at the same time, each having found the pair of
\* the one store
C25_Witness ==
    /\ Cardinality(rw.readers) = 2
    /\ \A r \in rw.readers :
          /\ req[r].pc = "unlock"
          /\ req[r].seen = Some(<<Payload(1), req[1].t>>)

\* a second store is between its two writes, the entry holds its value with
\* the timestamp of the first store, and a read waits for the lock
C25_WitnessMidInsert ==
    /\ rw.writers # {}
    /\ \E w \in rw.writers :
          /\ req[w].pc = "stamp"
          /\ cache[req[w].key] = <<Payload(2), 0>>
          /\ req[w].t = 1
    /\ WaitingReaders # {}

\* a read that came between two stores has found the pair of the first
C25_WitnessBetweenStores ==
    /\ Len(req) = 3
    /\ req[2].fn = "get_from_cache"
    /\ req[2].seen = Some(<<Payload(1), 0>>)
    /\ req[3].pc = "returned"
    /\ cache["system_overview"] = <<Payload(2), 1>>


----------------------------------------------------------------------------
(* One session of the frontend on get_system_overview: requests that may   *)
(* overlap, each an async command on the runtime's threads, and the        *)
(* commands that act on the host between them.  The host lists one         *)
(* container and one VM.                                                   *)

InitSession ==
    /\ CacheEmpty
    /\ OpsIdle
    /\ req = << >>
    /\ session = "system"
    /\ \E pct_list \in ListingAnswers("pct"), qm_list \in ListingAnswers("qm"),
          o \in FetchAnswers("pct") :
          /\ get_existing_ids("pct", <<pct_list>>).result = Ok(<<100>>)
          /\ get_existing_ids("qm", <<qm_list>>).result = Ok(<<500>>)
          /\ Len(o) = 3
          /\ world = [kind |-> "remote",
                      pct_list |-> Some(pct_list), qm_list |-> Some(qm_list),
                      pct |-> [id \in {100} |-> o],
                      qm |-> [id \in {500} |->
                                 <<Exited(TRUE, "status: stopped\n", "")>>],
                      maintenance |-> None]

\* the frontend invokes get_system_overview again while a request is in
\* flight
StartOverlapping ==
    /\ Len(req) < MaxRequests
    /\ req # << >>
    /\ req[Len(req)].pc # "returned"
    /\ req' = Append(req, NewRequest)
    /\ UNCHANGED <<cacheVars, lk, rw, opVars, world, session>>

\* the runtime lets another request in flight take the next step: that
\* request becomes the one in progress
Switch ==
    /\ \E r \in 1..(Len(req) - 1) :
          /\ req[r].pc # "returned"
          /\ req' = [i \in 1..Len(req) |->
                        IF i < r THEN req[i]
                        ELSE IF i < Len(req) THEN req[i + 1]
                        ELSE req[r]]
    /\ UNCHANGED <<cacheVars, lk, rw, opVars, world, session>>

NextSession ==
    \/ AdvancePolling
    \/ StartRequest
    \/ StartOverlapping
    \/ Switch
    \/ CacheCheck
    \/ CacheGet
    \/ DiscoverContainers
    \/ DiscoverVms
    \/ FetchContainer
    \/ FetchVm
    \/ Compose
    \/ StoreOverview
    \/ Return
    \/ Respond
    \/ (At("returned") /\ Len(req) = 1 /\ Do_start_container)
    \/ (At("returned") /\ Len(req) = 1 /\ Do_stop_container)
    \/ (At("returned") /\ Len(req) = 1 /\ Do_restart_container)
    \/ (At("returned") /\ Len(req) = 1 /\ Do_start_vm)
    \/ (At("returned") /\ Len(req) = 1 /\ Do_stop_vm)
    \/ (At("returned") /\ Len(req) = 1 /\ Do_restart_vm)
    \/ (At("returned") /\ Len(req) = 1 /\ Do_shutdown_vm)
    \/ (At("returned") /\ Len(req) = 1 /\ Do_reset_vm)
    \/ (At("returned") /\ Len(req) = 1 /\ Do_control_service)
    \/ (At("returned") /\ Len(req) = 1 /\ Do_write_config)

SpecSession == InitSession /\ [][NextSession]_vars

\* the request invoked first
FirstRequest == CHOOSE r \in 1..Len(req) : req[r].started = 1

ControlAndWrite == ControlOps \cup {"write_config"}

\* the request r, invoked after the first, has returned having found fresh
\* the entry the first request stored
FoundFirstEntryFresh(r) ==
    /\ req[r].started > 1
    /\ req[r].pc = "returned"
    /\ FoundFresh(req[r])
    /\ Some(req[r].seen[2][1]) = req[FirstRequest].stored

\* C26: control and write operations never modify the cache: after one has
\* succeeded, a get_system_overview issued while the earlier entry is still
\* fresh returns the aggregate composed before the operation, unchanged, and
\* contacts nobody
C26_StaleAfterControl ==
    (op.name \in ControlAndWrite /\ result.tag = "Ok")
        => \A r \in 1..Len(req) :
              FoundFirstEntryFresh(r)
                  => /\ req[r].calls = << >>
                     /\ req[r].result = req[FirstRequest].result

\* the part of C26 about the operations themselves: the step of a control or
\* write operation leaves the cache as it is
C26_ControlLeavesCache ==
    [][(op' # op /\ op'.name \in ControlAndWrite) => cache' = cache]_vars

\* C26 for the entries serde_json::from_str reads back
C26_StaleWhenReadable ==
    (op.name \in ControlAndWrite /\ result.tag = "Ok")
        => \A r \in 1..Len(req) :
              (/\ FoundFirstEntryFresh(r)
               /\ from_str("system", req[r].seen[2][1]).tag = "Ok")
                  => /\ req[r].calls = << >>
                     /\ req[r].result = req[FirstRequest].result

\* a container was started and the next request, a tick before the entry
\* expires, returned the aggregate of the first
C26_WitnessStale ==
    /\ op.name = "start_container" /\ result.tag = "Ok"
    /\ \E r \in 1..Len(req) :
          /\ FoundFirstEntryFresh(r)
          /\ req[r].at = CACHE_DURATION * TicksPerSecond - 1
          /\ req[r].calls = << >>
          /\ req[r].result = req[FirstRequest].result

\* the entry of the first pass holds a memory_usage that is not a number:
\* the request after the operation ran a pass of its own
C26_WitnessRecomputed ==
    /\ op.name \in ControlAndWrite /\ result.tag = "Ok"
    /\ \E r \in 1..Len(req) :
          /\ FoundFirstEntryFresh(r)
          /\ from_str("system", req[r].seen[2][1]).tag = "Err"
          /\ req[r].calls # << >>
          /\ req[r].stored # None

\* the requests that have stored their aggregate
Storers == { r \in 1..Len(req) : req[r].stored # None }

\* C27: under overlapping requests that both miss, the cached aggregate is
\* never replaced by the aggregate of a pass that started earlier than a
\* pass that has stored
C27_NoOlderPassOverwrites ==
    [][\A r \in 1..Len(req) :
          (/\ req[r].pc = "store"
           /\ req'[r].pc = "return"
           /\ req'[r].started = req[r].started)
              => \A q \in Storers : req[q].started < req[r].started]_vars

\* C27, second half: the cache holds the result of the most recently
\* started pass that has stored
C27_HoldsNewestPass ==
    Storers # {} =>
        LET newest == CHOOSE r \in Storers :
                          \A q \in Storers : req[q].started <= req[r].started
        IN cache["system_overview"][1] = req[newest].stored[2]

\* two requests have missed and stored, the one invoked first storing last,
\* at a later time: the cache holds its aggregate
C27_OlderPassStoredLast ==
    /\ Len(req) = 2
    /\ Storers = {1, 2}
    /\ req[2].started = 1
    /\ req[2].pc = "returned"
    /\ cache["system_overview"][1] = req[2].stored[2]
    /\ req[1].stored # req[2].stored

----------------------------------------------------------------------------
(* The details of one container and the metrics of the workstation, asked
   for again and again while the clock passes the two lifetimes *)

\* the clock reaches the last tick before each lifetime ends and the tick
\* it ends on
AdvanceDetails ==
    /\ op = NoOp
    /\ \E d \in {PERFORMANCE_CACHE_SECONDS, CONTAINER_CACHE_DURATION},
          early \in 0..1 :
          /\ d * TicksPerSecond - early > now
          /\ now' = d * TicksPerSecond - early
    /\ UNCHANGED <<cache, stores, nstores, lk, rw, opVars, passVars>>

Do_get_performance_metrics ==
    /\ op = NoOp
    /\ \E out \in {LaunchFailure("No such file or directory (os error 2)"),
                   Exited(FALSE, "", "bash: line 3: sensors: command not found"),
                   Exited(TRUE, "CPU Usage:\n  Total: 12%\nMemory Usage:\n  Used: 10Gi of 62Gi\nGPU Status:\n  GPU: idle\nStorage I/O:\nNetwork:\nLoad Average: 0.50 0.40 0.30\nLoad Average: 0.75\n", "")} :
          \E returned \in {get_performance_metrics(<<out>>)} :
             /\ op' = [name |-> "get_performance_metrics", args |-> << >>]
             /\ calls' = returned.calls
             /\ result' = returned.result
             /\ cache' = returned.cache
             /\ UNCHANGED <<now, stores, nstores, lk, rw, passVars>>

\* container 100, either stopped with none of the sixteen programs or
\* running with two of them; at most one of the commands cannot be launched
\* and, of the first and of `pct status`, at most one exits non-zero
Do_get_container_details ==
    /\ op = NoOp
    /\ \E plain \in BOOLEAN, failing \in 0..34, refused \in BOOLEAN :
          LET present == IF plain THEN {} ELSE {12, 16}
              paths == [k \in {12, 16} |->
                           IF k = 12 THEN "/usr/bin/git\n" ELSE "/usr/bin/nano\n"]
              versions == [k \in {12, 16} |->
                              IF k = 12 THEN "git version 2.39.2\n"
                              ELSE " GNU nano, version 7.2\n (C) 2023 the Free Software Foundation\n"]
              programs == Flatten([k \in 1..16 |->
                                      IF k \in present
                                      THEN <<paths[k], versions[k]>>
                                      ELSE <<"">>])
              printed ==
                  <<IF plain THEN "ID=Alpine\n"
                    ELSE "NAME=\"Debian GNU/Linux\"\nVERSION_ID=\"12\"\nID=debian\n",
                    "6.5.11-8-pve\n",
                    "x86_64\n",
                    "root 1 0.0 0.1 1000 500 ? Ss 10:00 0:01 /sbin/init splash\nroot 7 0.0 0.0\n">>
                  \o programs
                  \o <<IF plain THEN "No systemd\n"
                       ELSE "ssh.service loaded active running OpenBSD Secure Shell server\ncron.service loaded failed failed\nsshd.service.service\n">>
                  \o [k \in 1..8 |->
                         IF k = 6 THEN "-rw-r--r-- 1 root root 205 Jan 5 10:00 /etc/hosts\n"
                         ELSE IF k = 7 /\ ~plain
                         THEN "lrwxrwxrwx 1 root root many Jan 5 10:00 /etc/resolv.conf -> ../run/resolv.conf\n"
                         ELSE ""]
                  \o <<IF plain THEN "status: stopped\n" ELSE "status: running\n",
                       "NAME=\"Debian GNU/Linux\"\n",
                       "memory: 512\n">>
              o == [i \in 1..Len(printed) |->
                       IF i # failing THEN Exited(TRUE, printed[i], "")
                       ELSE IF refused
                       THEN LaunchFailure("No such file or directory (os error 2)")
                       ELSE Exited(FALSE, "", "Connection refused")]
          IN /\ failing <= Len(printed)
             /\ failing = 0 => refused
             /\ refused \/ failing \in {1, Len(printed) - 2}
             /\ \E returned \in {get_container_details(100, o)} :
                   /\ op' = [name |-> "get_container_details",
                             args |-> [container_id |-> 100]]
                   /\ calls' = returned.calls
                   /\ result' = returned.result
                   /\ cache' = returned.cache
                   /\ UNCHANGED <<now, stores, nstores, lk, rw, passVars>>

NextDetails ==
    \/ AdvanceDetails
    \/ Respond
    \/ Do_get_performance_metrics
    \/ Do_get_container_details

SpecDetails == Init /\ [][NextDetails]_vars

\* the key a request of one of the two handlers looks up and stores under
DetailKey(request) ==
    IF request.name = "get_performance_metrics" THEN "performance_metrics"
    ELSE "container_details_" \o ToString(request.args.container_id)

\* the next request for the key would be answered from the cache
Servable(request) ==
    /\ is_cache_valid_with_duration(
           DetailKey(request),
           IF request.name = "get_performance_metrics"
           THEN PERFORMANCE_CACHE_SECONDS ELSE CONTAINER_CACHE_DURATION)
    /\ get_from_cache(DetailKey(request)) # None

\* C29: a request of get_container_details or get_performance_metrics that
\* returns Err has spawned at least one command, leaves the whole cache as
\* it was before the request, and leaves no entry under its key that the
\* next request for that key would be answered from.
C29_ErrLeavesCache ==
    [][(/\ op = NoOp
        /\ op' # NoOp
        /\ op'.name \in {"get_container_details", "get_performance_metrics"}
        /\ result'.tag = "Err")
       => (/\ cache' = cache
           /\ calls' # << >>
           /\ ~Servable(op)')]_vars

\* a failed request of either handler while an expired record of an earlier
\* success is still in the map under its key
C29_Witness ==
    /\ op # NoOp
    /\ op.name \in {"get_container_details", "get_performance_metrics"}
    /\ result.tag = "Err"
    /\ DetailKey(op) \in DOMAIN cache

\* get_container_details failed at its last step, after every other command
\* had run, and no record of the container is in the map
C29_WitnessLastStep ==
    /\ op # NoOp
    /\ op.name = "get_container_details"
    /\ result.tag = "Err"
    /\ Len(calls) >= 30
    /\ DetailKey(op) \notin DOMAIN cache

\* the script could not be started while the record of the other handler,
\* still fresh, stays in the map
C29_WitnessOtherKept ==
    /\ op # NoOp
    /\ op.name = "get_performance_metrics"
    /\ result.tag = "Err"
    /\ is_cache_valid_with_duration("container_details_100",
                                    CONTAINER_CACHE_DURATION)

\* both handlers answer from the network and store when nothing fails
C29_WitnessStored ==
    /\ op # NoOp
    /\ op.name = "get_container_details"
    /\ result.tag = "Ok"
    /\ calls # << >>
    /\ Len(result.val.installed_binaries) = 2
    /\ Len(result.val.configs) = 2
    /\ cache["container_details_100"] = <<result.val, now>>

====
